---------------------------- MODULE Spec2Model ----------------------------
(***************************************************************************)
(* Model of the Discord MCP server (src/src/index.ts): the four identifier *)
(* resolvers (findGuild, findChannel, findRole, findMember) over the       *)
(* discord.js caches, and the tool-call dispatcher built on them.          *)
(*                                                                         *)
(* Strings are sequences of one-character strings, so that toLowerCase()   *)
(* and replace() are computed, not assumed.  IDs (snowflakes) are digit    *)
(* strings, names are letter strings: a name is never the snowflake of an  *)
(* existing entity.                                                        *)
(***************************************************************************)
EXTENDS Integers, Sequences, FiniteSets, TLC

VARIABLES
    guilds,          \* client.guilds.cache, in iteration order
    remoteGuilds,    \* the servers the bot has joined on the platform
    channels,        \* client.channels.cache (every guild.channels.cache is its filter by guild)
    remoteChannels,  \* the channels that exist on the platform
    roles,           \* the guilds' roles.cache, in iteration order
    remoteRoles,     \* the roles that exist on the platform
    members,         \* the guilds' members.cache, in iteration order
    remoteMembers,   \* the members that exist on the platform
    messages,        \* the messages of the platform's channels
    nextId,          \* the number of entities the platform has created for the bot
    disp,            \* the tool calls: position in the handler, arguments, calls made, outcome
    script,          \* the requests the client has still to send, in order
    responses,       \* the responses the client has received, in order
    probe,           \* the last resolver invocation: arguments, caches before, outcome, calls
    main             \* main(): its position, the token of the environment, its calls

vars == <<guilds, remoteGuilds, channels, remoteChannels, roles, remoteRoles,
          members, remoteMembers, messages, nextId, disp, script, responses, probe,
          main>>

-----------------------------------------------------------------------------
(* Bounds of the model *)

MaxGuilds == 3

MaxChannels == 3

MaxRoles == 3

MaxMembers == 2

-----------------------------------------------------------------------------
(* JavaScript strings *)

\* an omitted optional argument
Undefined == <<"undefined">>

\* the empty string
Empty == <<>>

Digits == <<"0", "1", "2", "3", "4", "5", "6", "7", "8", "9">>

Digit(i) == Digits[(i % 10) + 1]

\* String.prototype.toLowerCase on one character
LowerChar(c) ==
    CASE c = "A" -> "a"
      [] c = "B" -> "b"
      [] c = "C" -> "c"
      [] c = "N" -> "n"
      [] OTHER -> c

\* String.prototype.toLowerCase
ToLowerCase(s) == [i \in DOMAIN s |-> LowerChar(s[i])]

\* the positions of character c in s
Positions(s, c) == {i \in DOMAIN s : s[i] = c}

\* s without its element at position k
RemoveAt(s, k) == [i \in 1..(Len(s) - 1) |-> IF i < k THEN s[i] ELSE s[i + 1]]

Min(S) == CHOOSE x \in S : \A y \in S : x <= y

\* s.replace('#', ''): a string pattern replaces the first occurrence only
ReplaceHash(s) ==
    IF Positions(s, "#") = {} THEN s ELSE RemoveAt(s, Min(Positions(s, "#")))

\* !x for an optional string: undefined and '' are both falsy
Falsy(s) == s = Undefined \/ s = Empty

\* the elements of a sequence
Range(s) == {s[i] : i \in DOMAIN s}

\* Array.prototype.map / Collection.map
Map(s, F(_)) == [i \in DOMAIN s |-> F(s[i])]

\* Collection.filter, keeping iteration order
Filter(s, P(_)) == SelectSeq(s, P)

-----------------------------------------------------------------------------
(* Outcomes of a resolver: a returned entity or a thrown Error *)

NoEntity == [id |-> Empty]

Return(entity) == [ok |-> TRUE, kind |-> "ok", value |-> entity, ident |-> Empty, list |-> <<>>]

Throw(kind, ident, list) ==
    [ok |-> FALSE, kind |-> kind, value |-> NoEntity, ident |-> ident, list |-> list]

-----------------------------------------------------------------------------
(* Guilds *)

GuildId(i) == <<"1", Digit(i)>>

Guild(i, name) == [id |-> GuildId(i), name |-> name]

GuildName(g) == g.name

GuildNameAndId(g) == [name |-> g.name, id |-> g.id]

\* mutation: any non-empty cache counts as unambiguous
SoleGuild_AtLeastOne(cache) == Len(cache) >= 1

\* client.guilds.cache.size === 1
SoleGuild(cache) == Len(cache) = 1

\* mutation: the name comparison is case-sensitive
GuildNameMatches_CaseSensitive(g, guildIdentifier) == g.name = guildIdentifier

\* g.name.toLowerCase() === guildIdentifier.toLowerCase()
GuildNameMatches(g, guildIdentifier) ==
    ToLowerCase(g.name) = ToLowerCase(guildIdentifier)

\* client.guilds.fetch(id): the cached guild if there is one, else a request to
\* the platform, which answers with the guild when the bot has joined it and
\* the request gets through (net), and otherwise rejects.
GuildsFetch(cache, remote, id, net) ==
    IF \E i \in DOMAIN cache : cache[i].id = id
    THEN [ok |-> TRUE, guild |-> cache[CHOOSE i \in DOMAIN cache : cache[i].id = id],
          cache |-> cache]
    ELSE IF net /\ \E g \in remote : g.id = id
    THEN LET g == CHOOSE g \in remote : g.id = id
         IN  [ok |-> TRUE, guild |-> g, cache |-> Append(cache, g)]
    ELSE [ok |-> FALSE, guild |-> NoEntity, cache |-> cache]

\* findGuild, the name fallback in the catch block
FindGuildByName(cache, guildIdentifier) ==
    LET found == Filter(cache, LAMBDA g : GuildNameMatches(g, guildIdentifier))
    IN  IF Len(found) = 0
        THEN Throw("NotFound", guildIdentifier, Map(cache, GuildName))
        ELSE IF Len(found) > 1
        THEN Throw("Ambiguous", guildIdentifier, Map(found, GuildNameAndId))
        ELSE Return(found[1])

\* findGuild(guildIdentifier?): the outcome, the guild cache afterwards and
\* the collaborator calls made.
findGuild(cache, remote, guildIdentifier, net) ==
    IF Falsy(guildIdentifier)
    THEN [out |-> IF SoleGuild(cache)
                  THEN Return(cache[1])
                  ELSE Throw("AmbiguousContext", Empty, Map(cache, GuildName)),
          guilds |-> cache,
          calls |-> <<>>]
    ELSE LET f == GuildsFetch(cache, remote, guildIdentifier, net)
         IN  [out |-> IF f.ok THEN Return(f.guild)
                      ELSE FindGuildByName(cache, guildIdentifier),
              guilds |-> f.cache,
              calls |-> <<"guilds.fetch">>]

-----------------------------------------------------------------------------
(* Channels *)

ChannelId(i) == <<"2", Digit(i)>>

Channel(i, guildId, name, type) ==
    [id |-> ChannelId(i), guild |-> guildId, name |-> name, type |-> type]

ChannelSigilName(c) == c.name

ChannelNameAndId(c) == [name |-> c.name, id |-> c.id]

\* mutation: every channel type passes for a text channel
IsTextChannel_AnyType(c) == c.type \in {"text", "voice"}

\* channel instanceof TextChannel
IsTextChannel(c) == c.type = "text"

\* guild.channels.cache: the cached channels of one guild
GuildChannels(cache, guild) == Filter(cache, LAMBDA c : c.guild = guild.id)

\* mutation: the fetched channel's guild is not compared
AcceptFetchedChannel_AnyGuild(c, guild) == IsTextChannel(c)

\* channel instanceof TextChannel && channel.guild.id === guild.id
AcceptFetchedChannel(c, guild) == IsTextChannel(c) /\ c.guild = guild.id

\* mutation: the sigil is not removed
ChannelNameMatches_NoSigil(c, channelIdentifier) ==
    /\ IsTextChannel(c)
    /\ ToLowerCase(c.name) = ToLowerCase(channelIdentifier)

\* the filter predicate of the name fallback
ChannelNameMatches(c, channelIdentifier) ==
    /\ IsTextChannel(c)
    /\ \/ ToLowerCase(c.name) = ToLowerCase(channelIdentifier)
       \/ ToLowerCase(c.name) = ReplaceHash(ToLowerCase(channelIdentifier))

\* client.channels.fetch(id): the cached channel if there is one, else a
\* request to the platform, which answers with the channel when it exists and
\* the request gets through (net), and otherwise rejects.
ChannelsFetch(cache, remote, id, net) ==
    IF \E i \in DOMAIN cache : cache[i].id = id
    THEN [ok |-> TRUE, channel |-> cache[CHOOSE i \in DOMAIN cache : cache[i].id = id],
          cache |-> cache]
    ELSE IF net /\ \E c \in remote : c.id = id
    THEN LET c == CHOOSE c \in remote : c.id = id
         IN  [ok |-> TRUE, channel |-> c, cache |-> Append(cache, c)]
    ELSE [ok |-> FALSE, channel |-> NoEntity, cache |-> cache]

\* mutation: several matches are not told apart, the first one is returned
FindChannelByName_FirstMatch(cache, guild, channelIdentifier) ==
    LET found == Filter(GuildChannels(cache, guild),
                        LAMBDA c : ChannelNameMatches(c, channelIdentifier))
    IN  IF Len(found) = 0
        THEN Throw("NotFound", channelIdentifier,
                   Map(Filter(GuildChannels(cache, guild), IsTextChannel),
                       ChannelSigilName))
        ELSE Return(found[1])

\* findChannel, the name fallback in the catch block
FindChannelByName(cache, guild, channelIdentifier) ==
    LET found == Filter(GuildChannels(cache, guild),
                        LAMBDA c : ChannelNameMatches(c, channelIdentifier))
    IN  IF Len(found) = 0
        THEN Throw("NotFound", channelIdentifier,
                   Map(Filter(GuildChannels(cache, guild), IsTextChannel),
                       ChannelSigilName))
        ELSE IF Len(found) > 1
        THEN Throw("Ambiguous", channelIdentifier, Map(found, ChannelNameAndId))
        ELSE Return(found[1])

\* findChannel(channelIdentifier, guildIdentifier?) in world w (the caches and
\* the platform's state); net tells which requests get through.  The result
\* holds the outcome, the resolved guild, the caches afterwards and the
\* collaborator calls made.
findChannel(w, channelIdentifier, guildIdentifier, net) ==
    LET g == findGuild(w.guilds, w.remoteGuilds, guildIdentifier, net.guild)
    IN  IF ~g.out.ok
        THEN [out |-> g.out, guild |-> g.out, guilds |-> g.guilds,
              channels |-> w.channels, calls |-> g.calls]
        ELSE LET guild == g.out.value
                 f == ChannelsFetch(w.channels, w.remoteChannels, channelIdentifier,
                                    net.channel)
             IN  [out |-> IF f.ok
                          THEN IF AcceptFetchedChannel(f.channel, guild)
                               THEN Return(f.channel)
                               ELSE Throw("NotFound", channelIdentifier, <<>>)
                          ELSE FindChannelByName(w.channels, guild, channelIdentifier),
                  guild |-> g.out,
                  guilds |-> g.guilds,
                  channels |-> f.cache,
                  calls |-> g.calls \o <<"channels.fetch">>]

-----------------------------------------------------------------------------
(* Roles *)

RoleId(i) == <<"3", Digit(i)>>

Role(i, guildId, name) == [id |-> RoleId(i), guild |-> guildId, name |-> name]

RoleName(r) == r.name

\* the elements of a finite set, in one fixed order
RECURSIVE SeqOfSet(_)
SeqOfSet(S) ==
    IF S = {} THEN <<>>
    ELSE LET x == CHOOSE x \in S : TRUE IN <<x>> \o SeqOfSet(S \ {x})

\* Collection.find: the first element in iteration order, or none
Find(s, P(_)) ==
    LET found == Filter(s, P)
    IN  IF Len(found) = 0 THEN [ok |-> FALSE, value |-> NoEntity]
        ELSE [ok |-> TRUE, value |-> found[1]]

\* a ?? b on lookups
OrElse(a, b) == IF a.ok THEN a ELSE b

\* mutation: the roles of every guild
GuildRoles_AnyGuild(cache, guild) == cache

\* guild.roles.cache: the cached roles of one guild
GuildRoles(cache, guild) == Filter(cache, LAMBDA r : r.guild = guild.id)

\* guild.roles.cache.get(roleIdentifier)
RoleById(cache, guild, roleIdentifier) ==
    Find(GuildRoles(cache, guild), LAMBDA r : r.id = roleIdentifier)

\* guild.roles.cache.find(r => r.name.toLowerCase() === roleIdentifier.toLowerCase())
RoleByName(cache, guild, roleIdentifier) ==
    Find(GuildRoles(cache, guild),
         LAMBDA r : ToLowerCase(r.name) = ToLowerCase(roleIdentifier))

\* what a fetch of all the entities of a guild leaves in a cache: every cached
\* entry the platform still has is replaced by the platform's, the platform's
\* other entries of that guild are appended, and nothing is evicted
Refreshed(cache, remote, guild) ==
    LET patch(e) == IF \E x \in remote : x.id = e.id
                    THEN CHOOSE x \in remote : x.id = e.id
                    ELSE e
        fresh == {x \in remote : /\ x.guild = guild.id
                                 /\ \A i \in DOMAIN cache : cache[i].id # x.id}
    IN  Map(cache, patch) \o SeqOfSet(fresh)

\* await guild.roles.fetch()
RolesRefresh(cache, remote, guild) == Refreshed(cache, remote, guild)

\* mutation: the name is looked up before the ID
RoleFirstPass_NameFirst(cache, guild, roleIdentifier) ==
    OrElse(RoleByName(cache, guild, roleIdentifier),
           RoleById(cache, guild, roleIdentifier))

\* the lookups of findRole before the refresh: by ID, then by name
RoleFirstPass(cache, guild, roleIdentifier) ==
    OrElse(RoleById(cache, guild, roleIdentifier),
           RoleByName(cache, guild, roleIdentifier))

\* mutation: after the refresh only the ID lookup is repeated
RoleSecondPass_IdOnly(cache, guild, roleIdentifier) ==
    RoleById(cache, guild, roleIdentifier)

\* the lookups of findRole after the refresh
RoleSecondPass(cache, guild, roleIdentifier) ==
    OrElse(RoleById(cache, guild, roleIdentifier),
           RoleByName(cache, guild, roleIdentifier))

RoleNotFound(cache, guild, roleIdentifier) ==
    Throw("NotFound", roleIdentifier, Map(GuildRoles(cache, guild), RoleName))

\* findRole from the resolved guild on; ok tells whether the refresh succeeds
FindRoleIn(cache, remote, guild, roleIdentifier, ok) ==
    LET first == RoleFirstPass(cache, guild, roleIdentifier)
        fresh == RolesRefresh(cache, remote, guild)
        second == RoleSecondPass(fresh, guild, roleIdentifier)
    IN  IF first.ok
        THEN [out |-> Return(first.value), roles |-> cache, calls |-> <<>>]
        ELSE IF ok
        THEN [out |-> IF second.ok THEN Return(second.value)
                      ELSE RoleNotFound(fresh, guild, roleIdentifier),
              roles |-> fresh, calls |-> <<"roles.fetch">>]
        ELSE [out |-> RoleNotFound(cache, guild, roleIdentifier),
              roles |-> cache, calls |-> <<"roles.fetch">>]

\* findRole(roleIdentifier, guildIdentifier?)
findRole(w, roleIdentifier, guildIdentifier, net) ==
    LET g == findGuild(w.guilds, w.remoteGuilds, guildIdentifier, net.guild)
    IN  IF ~g.out.ok
        THEN [out |-> g.out, guild |-> g.out, guilds |-> g.guilds,
              roles |-> w.roles, calls |-> g.calls]
        ELSE LET r == FindRoleIn(w.roles, w.remoteRoles, g.out.value,
                                 roleIdentifier, net.roles)
             IN  [out |-> r.out, guild |-> g.out, guilds |-> g.guilds,
                  roles |-> r.roles, calls |-> g.calls \o r.calls]

-----------------------------------------------------------------------------
(* Members *)

MemberId(i) == <<"4", Digit(i)>>

\* no nickname
Null == <<"null">>

Member(i, guildId, username, nickname, roleIds) ==
    [id |-> MemberId(i), guild |-> guildId, username |-> username,
     tag |-> username \o <<"#", Digit(i)>>, nickname |-> nickname,
     roles |-> roleIds]

\* userIdentifier.replace(/[<@!>]/g, ''): every such character is removed
StripMention(s) == Filter(s, LAMBDA c : c \notin {"<", "@", "!", ">"})

\* guild.members.cache: the cached members of one guild
GuildMembers(cache, guild) == Filter(cache, LAMBDA m : m.guild = guild.id)

\* guild.members.fetch(id): the cached member if there is one, else a request
\* to the platform, which answers with the member when the guild has it and
\* the request gets through (net), and otherwise rejects.
MembersFetch(cache, remote, guild, id, net) ==
    LET hit == Find(GuildMembers(cache, guild), LAMBDA m : m.id = id)
    IN  IF hit.ok
        THEN [ok |-> TRUE, member |-> hit.value, cache |-> cache]
        ELSE IF net /\ \E m \in remote : m.id = id /\ m.guild = guild.id
        THEN LET m == CHOOSE m \in remote : m.id = id /\ m.guild = guild.id
             IN  [ok |-> TRUE, member |-> m, cache |-> Append(cache, m)]
        ELSE [ok |-> FALSE, member |-> NoEntity, cache |-> cache]

\* await guild.members.fetch()
MembersRefresh(cache, remote, guild) == Refreshed(cache, remote, guild)

\* what guild.members.fetch() resolves to: the collection of the members
MemberCollection(cache, guild) ==
    [id |-> Undefined, guild |-> guild.id, collection |-> GuildMembers(cache, guild)]

\* guild.members.fetch(''): an empty ID is no ID, so the call is the fetch of
\* all the members, which resolves to their collection or rejects
MembersFetchAll(cache, remote, guild, net) ==
    IF net
    THEN [ok |-> TRUE,
          member |-> MemberCollection(MembersRefresh(cache, remote, guild), guild),
          cache |-> MembersRefresh(cache, remote, guild)]
    ELSE [ok |-> FALSE, member |-> NoEntity, cache |-> cache]

\* guild.members.fetch(userIdentifier.replace(/[<@!>]/g, ''))
MembersFetchStripped(cache, remote, guild, userIdentifier, net) ==
    IF Falsy(StripMention(userIdentifier))
    THEN MembersFetchAll(cache, remote, guild, net)
    ELSE MembersFetch(cache, remote, guild, StripMention(userIdentifier), net)

\* the call that this fetch is
FetchStrippedCall(userIdentifier) ==
    IF Falsy(StripMention(userIdentifier)) THEN "members.fetch" ELSE "members.fetch(id)"

\* guild.members.cache.get(id)
MemberById(cache, guild, id) ==
    Find(GuildMembers(cache, guild), LAMBDA m : m.id = id)

\* m.user.tag.toLowerCase() === lowerUserIdentifier
MemberByTag(cache, guild, lowerUserIdentifier) ==
    Find(GuildMembers(cache, guild),
         LAMBDA m : ToLowerCase(m.tag) = lowerUserIdentifier)

\* m.nickname?.toLowerCase() === lowerUserIdentifier ||
\* m.user.username.toLowerCase() === lowerUserIdentifier
MemberByName(cache, guild, lowerUserIdentifier) ==
    Find(GuildMembers(cache, guild),
         LAMBDA m : \/ m.nickname # Null /\ ToLowerCase(m.nickname) = lowerUserIdentifier
                    \/ ToLowerCase(m.username) = lowerUserIdentifier)

\* mutation: the nickname or username is looked up before the tag
MemberFirstPass_NameFirst(cache, guild, userIdentifier) ==
    OrElse(MemberByName(cache, guild, ToLowerCase(userIdentifier)),
           MemberByTag(cache, guild, ToLowerCase(userIdentifier)))

\* the cache lookups of findMember before the refresh: by tag, then by name
MemberFirstPass(cache, guild, userIdentifier) ==
    OrElse(MemberByTag(cache, guild, ToLowerCase(userIdentifier)),
           MemberByName(cache, guild, ToLowerCase(userIdentifier)))

\* mutation: after the refresh the nickname-or-username lookup is not repeated
MemberSecondPass_NoName(cache, guild, userIdentifier) ==
    OrElse(MemberById(cache, guild, StripMention(userIdentifier)),
           MemberByTag(cache, guild, ToLowerCase(userIdentifier)))

\* the lookups of findMember after the refresh: by ID, by tag, then by name
MemberSecondPass(cache, guild, userIdentifier) ==
    OrElse(MemberById(cache, guild, StripMention(userIdentifier)),
           OrElse(MemberByTag(cache, guild, ToLowerCase(userIdentifier)),
                  MemberByName(cache, guild, ToLowerCase(userIdentifier))))

\* findMember from the resolved guild on; net tells which requests get through
FindMemberIn(cache, remote, guild, userIdentifier, net) ==
    LET f == MembersFetchStripped(cache, remote, guild, userIdentifier, net.member)
        byId == FetchStrippedCall(userIdentifier)
        first == MemberFirstPass(f.cache, guild, userIdentifier)
        fresh == MembersRefresh(f.cache, remote, guild)
        second == MemberSecondPass(fresh, guild, userIdentifier)
    IN  IF f.ok
        THEN [out |-> Return(f.member), members |-> f.cache,
              calls |-> <<byId>>]
        ELSE IF first.ok
        THEN [out |-> Return(first.value), members |-> f.cache,
              calls |-> <<byId>>]
        ELSE IF net.members
        THEN [out |-> IF second.ok THEN Return(second.value)
                      ELSE Throw("NotFound", userIdentifier, <<>>),
              members |-> fresh,
              calls |-> <<byId, "members.fetch">>]
        ELSE [out |-> Throw("NotFound", userIdentifier, <<>>),
              members |-> f.cache,
              calls |-> <<byId, "members.fetch">>]

\* findMember(userIdentifier, guildIdentifier?)
findMember(w, userIdentifier, guildIdentifier, net) ==
    LET g == findGuild(w.guilds, w.remoteGuilds, guildIdentifier, net.guild)
    IN  IF ~g.out.ok
        THEN [out |-> g.out, guild |-> g.out, guilds |-> g.guilds,
              members |-> w.members, calls |-> g.calls]
        ELSE LET r == FindMemberIn(w.members, w.remoteMembers, g.out.value,
                                   userIdentifier, net)
             IN  [out |-> r.out, guild |-> g.out, guilds |-> g.guilds,
                  members |-> r.members, calls |-> g.calls \o r.calls]

-----------------------------------------------------------------------------
(* Tool arguments and their validation schemas (zod) *)

\* JSON values of the arguments record
Str(s) == [t |-> "string", v |-> s]

Num(n) == [t |-> "number", v |-> n]

Bool(b) == [t |-> "boolean", v |-> b]

Arr(a) == [t |-> "array", v |-> a]

NoDefault == [t |-> "undefined", v |-> Undefined]

\* z.string() and z.string().optional()
StringField(name, required) ==
    [name |-> name, type |-> "string", required |-> required,
     default |-> NoDefault, min |-> 0, max |-> 0]

\* z.number().min(lo).max(hi).default(dflt)
NumberField(name, lo, hi, dflt) ==
    [name |-> name, type |-> "number", required |-> FALSE,
     default |-> Num(dflt), min |-> lo, max |-> hi]

\* z.array(z.string()).optional()
ArrayField(name) ==
    [name |-> name, type |-> "array", required |-> FALSE,
     default |-> NoDefault, min |-> 0, max |-> 0]

\* z.boolean().optional(), with or without .default(false)
BooleanField(name, default) ==
    [name |-> name, type |-> "boolean", required |-> FALSE,
     default |-> default, min |-> 0, max |-> 0]

SendMessageSchema ==
    <<StringField("server", FALSE), StringField("channel", TRUE),
      StringField("message", TRUE)>>

ReadMessagesSchema ==
    <<StringField("server", FALSE), StringField("channel", TRUE),
      NumberField("limit", 1, 100, 50)>>

ReadMultipleChannelsSchema ==
    <<StringField("server", FALSE), ArrayField("channels"),
      NumberField("limitPerChannel", 1, 50, 10)>>

ListChannelsSchema == <<StringField("server", FALSE)>>

ListServersSchema == <<>>

CreateChannelSchema ==
    <<StringField("server", FALSE), StringField("channelName", TRUE)>>

ListRolesSchema == <<StringField("server", FALSE)>>

AssignRoleSchema ==
    <<StringField("server", FALSE), StringField("user", TRUE),
      StringField("role", TRUE)>>

RemoveRoleSchema ==
    <<StringField("server", FALSE), StringField("user", TRUE),
      StringField("role", TRUE)>>

CreateRoleSchema ==
    <<StringField("server", FALSE), StringField("roleName", TRUE),
      StringField("color", FALSE), ArrayField("permissions"),
      BooleanField("mentionable", Bool(FALSE))>>

DeleteRoleSchema == <<StringField("server", FALSE), StringField("role", TRUE)>>

UpdateRoleSchema ==
    <<StringField("server", FALSE), StringField("role", TRUE),
      StringField("newName", FALSE), StringField("newColor", FALSE),
      ArrayField("newPermissions"), BooleanField("newMentionable", NoDefault)>>

GetMemberCountSchema == <<StringField("server", FALSE)>>

GetRoleMemberCountSchema ==
    <<StringField("server", FALSE), StringField("role", TRUE)>>

\* the tools of the switch statement
Tools ==
    {"send-message", "read-messages", "list-channels", "list-servers",
     "create-channel", "read-multiple-channels", "list-roles", "assign-role",
     "remove-role", "create-role", "delete-role", "update-role",
     "get-member-count", "get-role-member-count"}

\* the schema each case of the switch parses the arguments with
SchemaOf(name) ==
    CASE name = "send-message" -> SendMessageSchema
      [] name = "read-messages" -> ReadMessagesSchema
      [] name = "list-channels" -> ListChannelsSchema
      [] name = "list-servers" -> ListServersSchema
      [] name = "create-channel" -> CreateChannelSchema
      [] name = "read-multiple-channels" -> ReadMultipleChannelsSchema
      [] name = "list-roles" -> ListRolesSchema
      [] name = "assign-role" -> AssignRoleSchema
      [] name = "remove-role" -> RemoveRoleSchema
      [] name = "create-role" -> CreateRoleSchema
      [] name = "delete-role" -> DeleteRoleSchema
      [] name = "update-role" -> UpdateRoleSchema
      [] name = "get-member-count" -> GetMemberCountSchema
      [] name = "get-role-member-count" -> GetRoleMemberCountSchema

\* mutation: a number has no maximum
FieldIssues_NoMax(f, args) ==
    IF f.name \notin DOMAIN args
    THEN IF f.required
         THEN <<[path |-> f.name, message |-> "Required"]>>
         ELSE <<>>
    ELSE IF args[f.name].t # f.type
    THEN <<[path |-> f.name, message |-> "Invalid type"]>>
    ELSE IF f.type = "number" /\ args[f.name].v < f.min
    THEN <<[path |-> f.name, message |-> "Number too small"]>>
    ELSE <<>>

\* the issues zod raises for one field of the shape
FieldIssues(f, args) ==
    IF f.name \notin DOMAIN args
    THEN IF f.required
         THEN <<[path |-> f.name, message |-> "Required"]>>
         ELSE <<>>
    ELSE IF args[f.name].t # f.type
    THEN <<[path |-> f.name, message |-> "Invalid type"]>>
    ELSE IF f.type = "number" /\ args[f.name].v < f.min
    THEN <<[path |-> f.name, message |-> "Number too small"]>>
    ELSE IF f.type = "number" /\ args[f.name].v > f.max
    THEN <<[path |-> f.name, message |-> "Number too big"]>>
    ELSE <<>>

\* every issue of the arguments, in the order of the shape's fields
RECURSIVE SchemaIssues(_, _)
SchemaIssues(schema, args) ==
    IF schema = <<>> THEN <<>>
    ELSE FieldIssues(Head(schema), args) \o SchemaIssues(Tail(schema), args)

\* the parsed record: the declared fields that are given or have a default
RECURSIVE SchemaValue(_, _)
SchemaValue(schema, args) ==
    IF schema = <<>> THEN <<>>
    ELSE LET f == Head(schema)
             rest == SchemaValue(Tail(schema), args)
         IN  IF f.name \in DOMAIN args THEN (f.name :> args[f.name]) @@ rest
             ELSE IF f.default.t # "undefined" THEN (f.name :> f.default) @@ rest
             ELSE rest

\* request.params.arguments when the request has none
NoArguments == [undefined |-> TRUE]

\* the issue zod raises when the value to parse is not an object: its path is empty
NotAnObject == <<[path |-> "", message |-> "Required"]>>

\* Schema.parse(args): the parsed record, or the ZodError's issues
ZodParse(schema, args) ==
    IF args = NoArguments
    THEN [ok |-> FALSE, issues |-> NotAnObject, value |-> <<>>]
    ELSE [ok |-> SchemaIssues(schema, args) = <<>>,
          issues |-> SchemaIssues(schema, args),
          value |-> SchemaValue(schema, args)]

\* whether a destructured field of the parsed record is not undefined
Given(parsed, name) == name \in DOMAIN parsed

\* a destructured field of the parsed record: undefined when absent
Field(parsed, name) ==
    IF name \in DOMAIN parsed THEN parsed[name].v ELSE Undefined

-----------------------------------------------------------------------------
(* The tool-call handler: setRequestHandler(CallToolRequestSchema, ...) *)

\* a slot in which no tool call runs yet
Idle == [pc |-> "idle"]

NoResult == [status |-> "pending"]

NoCall == [call |-> "none"]

\* the handler's return value
Success(payload) == [status |-> "success", payload |-> payload]

\* mutation: the message carries the first issue only
InvalidArguments_FirstOnly(issues) ==
    [status |-> "failure", prefix |-> "Invalid arguments: ",
     kind |-> "ValidationError", issues |-> <<Head(issues)>>]

\* the catch block on a ZodError: every issue as "path: message"
InvalidArguments(issues) ==
    [status |-> "failure", prefix |-> "Invalid arguments: ",
     kind |-> "ValidationError", issues |-> issues]

\* the catch block on any other Error: the message behind a fixed prefix
ExecutionFailed(error) ==
    [status |-> "failure", prefix |-> "Tool execution failed: ",
     kind |-> error.kind, error |-> error]

\* the handler's frame when it starts
Frame(name, args) ==
    [pc |-> "start", name |-> name, args |-> args, parsed |-> <<>>,
     guild |-> NoEntity, channel |-> NoEntity, member |-> NoEntity,
     role |-> NoEntity, targets |-> <<>>, next |-> 1, items |-> <<>>,
     pending |-> NoCall, calls |-> <<>>, result |-> NoResult]

\* the handler returns or throws
Finish(r, result) == [r EXCEPT !.pc = "done", !.result = result]

\* the handler calls the collaborator and suspends until it answers
Issue(r, call) ==
    [r EXCEPT !.pc = "await", !.pending = call, !.calls = Append(@, call.call)]

\* the handler calls a resolver and suspends until it settles
Resolve(r, resolver) == [r EXCEPT !.pc = resolver]

\* PermissionsBitField.Flags: two of its own keys
SendMessages == <<"S">>

ManageMessages == <<"M">>

PermissionFlags == {SendMessages, ManageMessages}

\* a key PermissionsBitField.Flags inherits from Object.prototype
ToStringKey == <<"t", "o", "S", "t", "r", "i", "n", "g">>

ObjectPrototypeKeys == {ToStringKey}

\* p in PermissionsBitField.Flags: the operator follows the prototype chain
InFlags(p) == p \in PermissionFlags \cup ObjectPrototypeKeys

\* permissions.map(p => ...): the first name that is not a flag, if any
InvalidPermissions(permissions) == SelectSeq(permissions, LAMBDA p : ~InFlags(p))

InvalidPermission(permissions) ==
    Throw("InvalidPermission", InvalidPermissions(permissions)[1],
          SeqOfSet(PermissionFlags))

\* case "list-servers", after the parse
ListServers(r, w) ==
    Finish(r, Success(Map(w.guilds, GuildNameAndId)))

\* case "list-channels", after findGuild
ListChannels(r, w) ==
    Finish(r, Success([server |-> r.guild.name,
                       channels |-> Map(Filter(GuildChannels(w.channels, r.guild),
                                               IsTextChannel),
                                        ChannelNameAndId)]))

\* mutation: the names are compared as they are written
ExistingChannel_CaseSensitive(w, guild, channelName) ==
    Find(GuildChannels(w.channels, guild),
         LAMBDA c : c.name = channelName /\ c.type = "text")

\* c.name.toLowerCase() === channelName.toLowerCase() && c.type === ChannelType.GuildText
ExistingChannel(w, guild, channelName) ==
    Find(GuildChannels(w.channels, guild),
         LAMBDA c : ToLowerCase(c.name) = ToLowerCase(channelName) /\ c.type = "text")

\* case "create-channel", after findGuild
CreateChannel(r, w) ==
    LET channelName == Field(r.parsed, "channelName")
    IN  IF ExistingChannel(w, r.guild, channelName).ok
        THEN Finish(r, ExecutionFailed(Throw("Conflict", channelName, <<>>)))
        ELSE Issue(r, [call |-> "channels.create", guild |-> r.guild.id,
                       name |-> channelName])

\* case "read-multiple-channels", after findGuild
ReadMultipleChannels(r, w) ==
    LET channelIdentifiers == Field(r.parsed, "channels")
        all == Filter(GuildChannels(w.channels, r.guild), IsTextChannel)
    IN  IF Given(r.parsed, "channels") /\ Len(channelIdentifiers) > 0
        THEN Resolve(r, "findChannels")
        ELSE IF Len(all) = 0
        THEN Finish(r, Success([server |-> r.guild.name, channels |-> 0, items |-> <<>>]))
        ELSE [r EXCEPT !.pc = "read", !.targets = all]

\* case "list-roles", after findGuild
ListRoles(r) == Issue(r, [call |-> "roles.fetch", guild |-> r.guild.id])

\* guild.roles.cache.find(r => r.name.toLowerCase() === roleName.toLowerCase())
ExistingRole(w, guild, roleName) == RoleByName(w.roles, guild, roleName)

\* case "create-role", after findGuild
CreateRole(r, w) ==
    LET roleName == Field(r.parsed, "roleName")
        permissions == Field(r.parsed, "permissions")
    IN  IF ExistingRole(w, r.guild, roleName).ok
        THEN Finish(r, ExecutionFailed(Throw("Conflict", roleName, <<>>)))
        ELSE IF Given(r.parsed, "permissions") /\ InvalidPermissions(permissions) # <<>>
        THEN Finish(r, ExecutionFailed(InvalidPermission(permissions)))
        ELSE Issue(r, [call |-> "roles.create", guild |-> r.guild.id,
                       name |-> roleName,
                       color |-> Field(r.parsed, "color"),
                       permissions |-> permissions,
                       mentionable |-> Field(r.parsed, "mentionable")])

\* case "get-member-count", after findGuild
GetMemberCount(r) == Issue(r, [call |-> "members.fetch", guild |-> r.guild.id])

\* the handler from the return of findGuild to its next suspension
AfterGuild(r, w) ==
    CASE r.name = "list-channels" -> ListChannels(r, w)
      [] r.name = "create-channel" -> CreateChannel(r, w)
      [] r.name = "read-multiple-channels" -> ReadMultipleChannels(r, w)
      [] r.name = "list-roles" -> ListRoles(r)
      [] r.name \in {"assign-role", "remove-role"} -> Resolve(r, "findMember")
      [] r.name = "create-role" -> CreateRole(r, w)
      [] r.name \in {"delete-role", "update-role", "get-role-member-count"} ->
            Resolve(r, "findRole")
      [] r.name = "get-member-count" -> GetMemberCount(r)

\* the handler from the return of findChannel to its next suspension
AfterChannel(r) ==
    CASE r.name = "send-message" ->
            Issue(r, [call |-> "channel.send", channel |-> r.channel.id,
                      content |-> Field(r.parsed, "message")])
      [] r.name = "read-messages" ->
            Issue(r, [call |-> "messages.fetch", channel |-> r.channel.id,
                      limit |-> Field(r.parsed, "limit")])

\* member.roles.cache.has(role.id)
HasRole(member, role) == role.id \in member.roles

\* mutation: the role is added whether or not the member holds it
AssignRole_NoGuard(r) ==
    Issue(r, [call |-> "member.roles.add", member |-> r.member.id, role |-> r.role.id])

\* case "assign-role", after findRole
AssignRole(r) ==
    IF HasRole(r.member, r.role)
    THEN Finish(r, ExecutionFailed(Throw("Conflict", r.role.name, <<r.member.tag>>)))
    ELSE Issue(r, [call |-> "member.roles.add", member |-> r.member.id,
                   role |-> r.role.id])

\* mutation: the role is removed whether or not the member holds it
RemoveRole_NoGuard(r) ==
    Issue(r, [call |-> "member.roles.remove", member |-> r.member.id, role |-> r.role.id])

\* case "remove-role", after findRole
RemoveRole(r) ==
    IF ~HasRole(r.member, r.role)
    THEN Finish(r, ExecutionFailed(Throw("Conflict", r.role.name, <<r.member.tag>>)))
    ELSE Issue(r, [call |-> "member.roles.remove", member |-> r.member.id,
                   role |-> r.role.id])

\* case "delete-role", after findRole
DeleteRole(r) == Issue(r, [call |-> "role.delete", role |-> r.role.id])

\* one key of the updates object, set when its argument is not undefined
Update(parsed, argument, key) ==
    IF Given(parsed, argument) THEN key :> parsed[argument].v ELSE <<>>

\* mutation: mentionable is set to false when newMentionable is absent
Updates_MentionableDefault(parsed) ==
    Update(parsed, "newName", "name") @@ Update(parsed, "newColor", "color")
    @@ Update(parsed, "newMentionable", "mentionable")
    @@ Update(parsed, "newPermissions", "permissions")
    @@ ("mentionable" :> FALSE)

\* the updates object of case "update-role"
Updates(parsed) ==
    Update(parsed, "newName", "name") @@ Update(parsed, "newColor", "color")
    @@ Update(parsed, "newMentionable", "mentionable")
    @@ Update(parsed, "newPermissions", "permissions")

\* case "update-role", after findRole
UpdateRole(r) ==
    IF Given(r.parsed, "newPermissions")
       /\ InvalidPermissions(Field(r.parsed, "newPermissions")) # <<>>
    THEN Finish(r, ExecutionFailed(InvalidPermission(Field(r.parsed, "newPermissions"))))
    ELSE IF DOMAIN Updates(r.parsed) = {}
    THEN Finish(r, ExecutionFailed(Throw("NoUpdate", Empty, <<>>)))
    ELSE Issue(r, [call |-> "role.edit", role |-> r.role.id,
                   updates |-> Updates(r.parsed)])

\* case "get-role-member-count", after findRole
GetRoleMemberCount(r) == Issue(r, [call |-> "members.fetch", guild |-> r.guild.id])

\* the handler from the return of findRole to its next suspension
AfterRole(r) ==
    CASE r.name = "assign-role" -> AssignRole(r)
      [] r.name = "remove-role" -> RemoveRole(r)
      [] r.name = "delete-role" -> DeleteRole(r)
      [] r.name = "update-role" -> UpdateRole(r)
      [] r.name = "get-role-member-count" -> GetRoleMemberCount(r)

\* mutation: a name that no case matches is handled as "list-servers"
StartHandler_NoDefault(name, args, w) ==
    LET r == Frame(name, args)
        z == ZodParse(SchemaOf(name), args)
    IN  IF name \notin Tools
        THEN ListServers(r, w)
        ELSE IF ~z.ok
        THEN Finish(r, InvalidArguments(z.issues))
        ELSE IF name = "list-servers"
        THEN ListServers([r EXCEPT !.parsed = z.value], w)
        ELSE IF name \in {"send-message", "read-messages"}
        THEN Resolve([r EXCEPT !.parsed = z.value], "findChannel")
        ELSE Resolve([r EXCEPT !.parsed = z.value], "findGuild")

\* the handler from its call to its first suspension: the switch and the parse
StartHandler(name, args, w) ==
    LET r == Frame(name, args)
        z == ZodParse(SchemaOf(name), args)
    IN  IF name \notin Tools
        THEN Finish(r, ExecutionFailed(Throw("UnknownTool", Empty, <<name>>)))
        ELSE IF ~z.ok
        THEN Finish(r, InvalidArguments(z.issues))
        ELSE IF name = "list-servers"
        THEN ListServers([r EXCEPT !.parsed = z.value], w)
        ELSE IF name \in {"send-message", "read-messages"}
        THEN Resolve([r EXCEPT !.parsed = z.value], "findChannel")
        ELSE Resolve([r EXCEPT !.parsed = z.value], "findGuild")

-----------------------------------------------------------------------------
(* The collaborator's answers, and what they leave on the platform and in the caches *)

\* the snowflake of the next entity the platform creates
NewId(w) == <<"5", Digit(w.nextId)>>

\* the guild of the cache with the given ID
GuildOf(w, guildId) ==
    Find(w.guilds, LAMBDA g : g.id = guildId).value

Max(S) == CHOOSE x \in S : \A y \in S : x >= y

\* the time of the platform's clock: later than every message
Now(w) == IF w.messages = {} THEN 1 ELSE 1 + Max({m.timestamp : m \in w.messages})

\* a set of messages, newest first
RECURSIVE NewestFirst(_)
NewestFirst(ms) ==
    IF ms = {} THEN <<>>
    ELSE LET m == CHOOSE m \in ms : \A o \in ms : o.timestamp <= m.timestamp
         IN  <<m>> \o NewestFirst(ms \ {m})

\* the first n elements of a sequence
Take(s, n) == SubSeq(s, 1, IF n < Len(s) THEN n ELSE Len(s))

\* channel.messages.fetch({ limit }): the latest messages of a channel
MessagesFetch(w, channelId, limit) ==
    Take(NewestFirst({m \in w.messages : m.channel = channelId}), limit)

\* the entry the handlers format a message as
FormatMessage(w, channel, msg) ==
    [channel |-> channel.name, server |-> GuildOf(w, channel.guild).name,
     author |-> msg.author, content |-> msg.content, timestamp |-> msg.timestamp]

\* a set of entities with one of them replaced
Patch(set, id, F(_)) == {IF e.id = id THEN F(e) ELSE e : e \in set}

\* a cache with one of its entities replaced
PatchSeq(cache, id, F(_)) == [i \in DOMAIN cache |-> IF cache[i].id = id THEN F(cache[i]) ELSE cache[i]]

\* await channel.send(message)
Sent(r, w) ==
    [w |-> [w EXCEPT !.messages = @ \cup {[id |-> NewId(w), channel |-> r.pending.channel,
                                           author |-> "bot",
                                           content |-> r.pending.content,
                                           timestamp |-> Now(w)]},
                     !.nextId = @ + 1],
     r |-> Finish(r, Success([channel |-> r.channel.name, server |-> r.guild.name,
                              id |-> NewId(w)]))]

\* await channel.messages.fetch({ limit }) of case "read-messages"
MessagesRead(r, w) ==
    [w |-> w,
     r |-> Finish(r, Success(Map(MessagesFetch(w, r.pending.channel, r.pending.limit),
                                 LAMBDA m : FormatMessage(w, r.channel, m))))]

\* await guild.channels.create({ name, type })
ChannelCreated(r, w) ==
    LET created == [id |-> NewId(w), guild |-> r.pending.guild,
                    name |-> r.pending.name, type |-> "text"]
    IN  [w |-> [w EXCEPT !.remoteChannels = @ \cup {created},
                         !.channels = Append(@, created),
                         !.nextId = @ + 1],
         r |-> Finish(r, Success([channel |-> created.name, id |-> created.id,
                                  server |-> r.guild.name]))]

\* mutation: the roles are listed from the cache as it is
RolesListed_NoRefresh(r, w) ==
    [w |-> w,
     r |-> Finish(r, Success([server |-> r.guild.name,
                              roles |-> GuildRoles(w.roles, r.guild)]))]

\* await guild.roles.fetch() of case "list-roles"
RolesListed(r, w) ==
    LET fresh == RolesRefresh(w.roles, w.remoteRoles, r.guild)
    IN  [w |-> [w EXCEPT !.roles = fresh],
         r |-> Finish(r, Success([server |-> r.guild.name,
                                  roles |-> GuildRoles(fresh, r.guild)]))]

\* mutation: the members are counted in the cache as it is
MembersCounted_NoRefresh(r, w) ==
    LET withRole == Filter(GuildMembers(w.members, r.guild), LAMBDA m : HasRole(m, r.role))
    IN  [w |-> w,
         r |-> Finish(r, Success(
                  IF r.name = "get-member-count"
                  THEN [server |-> r.guild.name,
                        count |-> Cardinality({m \in w.remoteMembers : m.guild = r.guild.id})]
                  ELSE [server |-> r.guild.name, role |-> r.role.name,
                        count |-> Len(withRole)]))]

\* await guild.members.fetch() of the member count handlers
MembersCounted(r, w) ==
    LET fresh == MembersRefresh(w.members, w.remoteMembers, r.guild)
        withRole == Filter(GuildMembers(fresh, r.guild), LAMBDA m : HasRole(m, r.role))
    IN  [w |-> [w EXCEPT !.members = fresh],
         r |-> Finish(r, Success(
                  IF r.name = "get-member-count"
                  THEN [server |-> r.guild.name,
                        count |-> Cardinality({m \in w.remoteMembers : m.guild = r.guild.id})]
                  ELSE [server |-> r.guild.name, role |-> r.role.name,
                        count |-> Len(withRole)]))]

\* await guild.roles.create({ name, color, permissions, mentionable })
RoleCreated(r, w) ==
    LET created == [id |-> NewId(w), guild |-> r.pending.guild, name |-> r.pending.name]
    IN  [w |-> [w EXCEPT !.remoteRoles = @ \cup {created},
                         !.roles = Append(@, created),
                         !.nextId = @ + 1],
         r |-> Finish(r, Success([role |-> created.name, id |-> created.id,
                                  server |-> r.guild.name]))]

\* await role.delete(reason)
RoleDeleted(r, w) ==
    LET without(m) == [m EXCEPT !.roles = @ \ {r.pending.role}]
    IN  [w |-> [w EXCEPT !.remoteRoles = {x \in @ : x.id # r.pending.role},
                         !.roles = Filter(@, LAMBDA x : x.id # r.pending.role),
                         !.remoteMembers = {without(m) : m \in @},
                         !.members = Map(@, without)],
         r |-> Finish(r, Success([role |-> r.role.name, id |-> r.role.id,
                                  server |-> r.guild.name]))]

\* await role.edit({ ...updates, reason }): the platform edits the role and
\* the call returns an edited copy; the cached role changes when the
\* platform's event of the edit arrives, before the handler resumes (synced)
\* or later
RoleEdited(r, w, synced) ==
    LET updates == r.pending.updates
        edit(x) == IF "name" \in DOMAIN updates THEN [x EXCEPT !.name = updates["name"]]
                   ELSE x
    IN  [w |-> [w EXCEPT !.remoteRoles = Patch(@, r.pending.role, edit),
                         !.roles = IF synced THEN PatchSeq(@, r.pending.role, edit)
                                   ELSE @],
         r |-> Finish(r, Success([role |-> edit(r.role).name, id |-> r.role.id,
                                  server |-> r.guild.name]))]

\* await member.roles.add(role) and await member.roles.remove(role): the
\* cached member changes when the platform's event of the change arrives,
\* before the handler resumes (synced) or later
MemberRolesChanged(r, w, synced) ==
    LET change(m) == IF r.pending.call = "member.roles.add"
                     THEN [m EXCEPT !.roles = @ \cup {r.pending.role}]
                     ELSE [m EXCEPT !.roles = @ \ {r.pending.role}]
    IN  [w |-> [w EXCEPT !.remoteMembers = Patch(@, r.pending.member, change),
                         !.members = IF synced THEN PatchSeq(@, r.pending.member, change)
                                     ELSE @],
         r |-> Finish(r, Success([role |-> r.role.name, user |-> r.member.tag,
                                  server |-> r.guild.name]))]

\* whether a list of looked-up permission values has one that is no flag bit
NoBitField(names) == \E i \in DOMAIN names : names[i] \notin PermissionFlags

\* whether the collaborator cannot resolve the permissions of the awaited call
Unresolvable(r) ==
    \/ /\ r.pending.call = "roles.create"
       /\ Given(r.parsed, "permissions")
       /\ NoBitField(Field(r.parsed, "permissions"))
    \/ /\ r.pending.call = "role.edit"
       /\ Given(r.parsed, "newPermissions")
       /\ NoBitField(Field(r.parsed, "newPermissions"))

\* mutation: a call that rejects is issued again
Answered_Retry(r, w, ok, synced) ==
    IF ~ok \/ Unresolvable(r)
    THEN [w |-> w, r |-> Issue(r, r.pending)]
    ELSE CASE r.pending.call = "channel.send" -> Sent(r, w)
           [] r.pending.call = "messages.fetch" -> MessagesRead(r, w)
           [] r.pending.call = "channels.create" -> ChannelCreated(r, w)
           [] r.pending.call = "roles.fetch" -> RolesListed(r, w)
           [] r.pending.call = "members.fetch" -> MembersCounted(r, w)
           [] r.pending.call = "roles.create" -> RoleCreated(r, w)
           [] r.pending.call = "role.delete" -> RoleDeleted(r, w)
           [] r.pending.call = "role.edit" -> RoleEdited(r, w, synced)
           [] r.pending.call \in {"member.roles.add", "member.roles.remove"} ->
                 MemberRolesChanged(r, w, synced)

\* the awaited collaborator call is answered (ok) or rejects
Answered(r, w, ok, synced) ==
    IF ~ok \/ Unresolvable(r)
    THEN [w |-> w, r |-> Finish(r, ExecutionFailed(Throw("CollaboratorError", Empty, <<>>)))]
    ELSE CASE r.pending.call = "channel.send" -> Sent(r, w)
           [] r.pending.call = "messages.fetch" -> MessagesRead(r, w)
           [] r.pending.call = "channels.create" -> ChannelCreated(r, w)
           [] r.pending.call = "roles.fetch" -> RolesListed(r, w)
           [] r.pending.call = "members.fetch" -> MembersCounted(r, w)
           [] r.pending.call = "roles.create" -> RoleCreated(r, w)
           [] r.pending.call = "role.delete" -> RoleDeleted(r, w)
           [] r.pending.call = "role.edit" -> RoleEdited(r, w, synced)
           [] r.pending.call \in {"member.roles.add", "member.roles.remove"} ->
                 MemberRolesChanged(r, w, synced)

\* what every request of one step of a dispatch meets: all succeed or all fail
Net(ok) == [guild |-> ok, channel |-> ok, roles |-> ok, member |-> ok, members |-> ok]

\* the resolver's name and the collaborator calls it made, logged in the frame
Called(r, resolver, calls) == [r EXCEPT !.calls = @ \o <<resolver>> \o calls]

\* the resolution c of one channel identifier before those of the next ones
Resolved(c, rest) ==
    [w |-> rest.w, outs |-> <<c.out>> \o rest.outs,
     calls |-> <<"findChannel">> \o c.calls \o rest.calls]

\* channelIdentifiers.map(id => findChannel(id, guild.id)): the resolutions
\* in the order of the identifiers, each on the caches the previous one left
RECURSIVE FindChannelsFrom(_, _, _, _)
RECURSIVE FindChannelsAfter(_, _, _, _, _)
FindChannelsAfter(c, w, channelIdentifiers, guild, net) ==
    Resolved(c, FindChannelsFrom([w EXCEPT !.guilds = c.guilds, !.channels = c.channels],
                                 channelIdentifiers, guild, net))

FindChannelsFrom(w, channelIdentifiers, guild, net) ==
    IF channelIdentifiers = <<>> THEN [w |-> w, outs |-> <<>>, calls |-> <<>>]
    ELSE FindChannelsAfter(findChannel(w, Head(channelIdentifiers), guild.id, net),
                           w, Tail(channelIdentifiers), guild, net)

\* the handler once Promise.all has settled: every channel, or the first rejection
FoundChannels(r, all) ==
    [w |-> all.w,
     r |-> IF \E i \in DOMAIN all.outs : ~all.outs[i].ok
           THEN Finish([r EXCEPT !.calls = @ \o all.calls],
                       ExecutionFailed(Filter(all.outs, LAMBDA o : ~o.ok)[1]))
           ELSE [r EXCEPT !.calls = @ \o all.calls, !.pc = "read",
                          !.targets = Map(all.outs, LAMBDA o : o.value)]]

\* await Promise.all(channelIdentifiers.map(id => findChannel(id, guild.id)))
FindChannels(r, w, net) ==
    FoundChannels(r, FindChannelsFrom(w, Field(r.parsed, "channels"), r.guild, net))

\* the handler once findGuild has settled as g
FoundGuild(r, w, g) ==
    [w |-> [w EXCEPT !.guilds = g.guilds],
     r |-> IF g.out.ok
           THEN AfterGuild([Called(r, "findGuild", g.calls) EXCEPT !.guild = g.out.value],
                           [w EXCEPT !.guilds = g.guilds])
           ELSE Finish(Called(r, "findGuild", g.calls), ExecutionFailed(g.out))]

\* the handler once findChannel has settled as c
FoundChannel(r, w, c) ==
    [w |-> [w EXCEPT !.guilds = c.guilds, !.channels = c.channels],
     r |-> IF c.out.ok
           THEN AfterChannel([Called(r, "findChannel", c.calls) EXCEPT
                                 !.guild = c.guild.value, !.channel = c.out.value])
           ELSE Finish(Called(r, "findChannel", c.calls), ExecutionFailed(c.out))]

\* the handler once findMember has settled as m
FoundMember(r, w, m) ==
    [w |-> [w EXCEPT !.guilds = m.guilds, !.members = m.members],
     r |-> IF m.out.ok
           THEN Resolve([Called(r, "findMember", m.calls) EXCEPT !.member = m.out.value],
                        "findRole")
           ELSE Finish(Called(r, "findMember", m.calls), ExecutionFailed(m.out))]

\* the handler once findRole has settled as f
FoundRole(r, w, f) ==
    [w |-> [w EXCEPT !.guilds = f.guilds, !.roles = f.roles],
     r |-> IF f.out.ok
           THEN AfterRole([Called(r, "findRole", f.calls) EXCEPT !.role = f.out.value])
           ELSE Finish(Called(r, "findRole", f.calls), ExecutionFailed(f.out))]

\* the entry pushed for a channel whose messages could not be fetched
ErrorEntry(w, channel) ==
    [channel |-> channel.name, server |-> GuildOf(w, channel.guild).name,
     error |-> "Failed to fetch messages"]

\* b.timestamp && a.timestamp
BothTimestamps(a, b) == "timestamp" \in DOMAIN a /\ "timestamp" \in DOMAIN b

\* the comparator of allMessages.sort
Compare(a, b) == IF BothTimestamps(a, b) THEN b.timestamp - a.timestamp ELSE 0

\* Array.prototype.sort as the engine runs it on an array shorter than 64
\* entries: it takes the longest run the array starts with, reversed when it
\* strictly descends, and puts each later entry into it by binary insertion.

\* whether the array starts with a strictly descending run
IsDescending(entries) == Compare(entries[2], entries[1]) < 0

\* the length of the run the array starts with, from a run of length n on
RECURSIVE RunLength(_, _)
RunLength(entries, n) ==
    IF n >= Len(entries) THEN n
    ELSE IF IsDescending(entries) = (Compare(entries[n + 1], entries[n]) < 0)
    THEN RunLength(entries, n + 1)
    ELSE n

Reverse(s) == [i \in 1..Len(s) |-> s[Len(s) + 1 - i]]

\* the array with its first n entries, a run, in ascending order
MakeRun(entries, n) ==
    IF IsDescending(entries)
    THEN Reverse(SubSeq(entries, 1, n)) \o SubSeq(entries, n + 1, Len(entries))
    ELSE entries

\* how many of the sorted entries from left to right stay before the pivot
RECURSIVE BinarySearch(_, _, _, _)
BinarySearch(sorted, pivot, left, right) ==
    IF left >= right THEN left
    ELSE IF Compare(pivot, sorted[left + ((right - left) \div 2) + 1]) < 0
    THEN BinarySearch(sorted, pivot, left, left + ((right - left) \div 2))
    ELSE BinarySearch(sorted, pivot, left + ((right - left) \div 2) + 1, right)

\* an entry put into the array after its first k entries
Insert(entries, e, k) ==
    SubSeq(entries, 1, k) \o <<e>> \o SubSeq(entries, k + 1, Len(entries))

\* the array whose first start entries are sorted, with the others inserted
RECURSIVE BinaryInsertionSort(_, _)
BinaryInsertionSort(entries, start) ==
    IF start >= Len(entries) THEN entries
    ELSE BinaryInsertionSort(
            Insert(SubSeq(entries, 1, start), entries[start + 1],
                   BinarySearch(entries, entries[start + 1], 0, start))
            \o SubSeq(entries, start + 2, Len(entries)),
            start + 1)

\* allMessages.sort((a, b) => ...)
Sort(entries) ==
    IF Len(entries) < 2 THEN entries
    ELSE BinaryInsertionSort(MakeRun(entries, RunLength(entries, 2)),
                             RunLength(entries, 2))

\* one iteration of the loop over targetChannels, and the return after the last
ReadTarget(r, w, ok) ==
    LET channel == r.targets[r.next]
        limit == Field(r.parsed, "limitPerChannel")
        entries == IF ok
                   THEN Map(MessagesFetch(w, channel.id, limit),
                            LAMBDA m : FormatMessage(w, channel, m))
                   ELSE <<ErrorEntry(w, channel)>>
        r1 == [r EXCEPT !.items = @ \o entries, !.next = @ + 1,
                        !.calls = Append(@, "messages.fetch")]
    IN  IF r.next < Len(r.targets) THEN r1
        ELSE Finish(r1, Success([server |-> r.guild.name, channels |-> Len(r.targets),
                                 items |-> Sort(r1.items)]))

-----------------------------------------------------------------------------
(* The state before any tool call: what the resolvers may find *)

GuildNames == {<<"a">>, <<"A">>, <<"b">>}

GuildIdents ==
    {Undefined, Empty} \cup {GuildId(i) : i \in 1..(MaxGuilds + 1)}
    \cup {<<"a">>, <<"A">>, <<"b">>, <<"B">>, <<"c">>}

NoProbe == [fn |-> "none"]

\* the token of a configured environment
Token == <<"t">>

\* main() once the server is connected: it has logged in, then connected
Running == [pc |-> "running", token |-> Token, calls |-> <<"login", "connect">>]

\* the caches and the platform's state, as the resolvers read them
World ==
    [guilds |-> guilds, remoteGuilds |-> remoteGuilds,
     channels |-> channels, remoteChannels |-> remoteChannels,
     roles |-> roles, remoteRoles |-> remoteRoles,
     members |-> members, remoteMembers |-> remoteMembers,
     messages |-> messages, nextId |-> nextId]

\* two joined and cached guilds, for the resolvers scoped to a guild
TwoGuilds == <<Guild(1, <<"a">>), Guild(2, <<"b">>)>>

ServerIdents == {Undefined, GuildId(1), <<"B">>}

\* the guilds with the given indices, in index order
GuildSeq(S, nm) ==
    Filter([i \in 1..MaxGuilds |-> Guild(i, nm[i])],
           LAMBDA g : \E i \in S : g.id = GuildId(i))

InitGuild ==
    /\ \E nm \in [1..MaxGuilds -> GuildNames] :
       \E joined \in SUBSET (1..MaxGuilds) :
       \E cached \in SUBSET joined :
          /\ remoteGuilds = {Guild(i, nm[i]) : i \in joined}
          /\ guilds = GuildSeq(cached, nm)
    /\ channels = <<>>
    /\ remoteChannels = {}
    /\ roles = <<>>
    /\ remoteRoles = {}
    /\ members = <<>>
    /\ remoteMembers = {}
    /\ messages = {}
    /\ nextId = 1
    /\ disp = <<>>
    /\ script = <<>>
    /\ responses = <<>>
    /\ probe = NoProbe
    /\ main = Running

\* one call of findGuild
CallFindGuild(guildIdentifier, net) ==
    LET r == findGuild(guilds, remoteGuilds, guildIdentifier, net)
    IN  /\ probe = NoProbe
        /\ probe' = [fn |-> "findGuild", ident |-> guildIdentifier, net |-> net,
                     before |-> guilds, out |-> r.out, calls |-> r.calls]
        /\ guilds' = r.guilds
        /\ UNCHANGED <<remoteGuilds, channels, remoteChannels, roles, remoteRoles,
                       members, remoteMembers, messages, nextId, disp, script, responses,
                       main>>

NextGuild == \E guildIdentifier \in GuildIdents, net \in BOOLEAN :
                CallFindGuild(guildIdentifier, net)

SpecGuild == InitGuild /\ [][NextGuild]_vars

ChannelIdents ==
    {Empty} \cup {ChannelId(i) : i \in 1..(MaxChannels + 1)}
    \cup {<<"a">>, <<"A">>, <<"#", "a">>, <<"#", "A">>, <<"a", "#">>, <<"b">>}

\* the n-th combination of guild, name, type and cached-or-not of a channel
ChannelKind(n) ==
    [guild  |-> IF n % 2 = 0 THEN GuildId(1) ELSE GuildId(2),
     name   |-> IF (n \div 2) % 2 = 0 THEN <<"a">> ELSE <<"A">>,
     type   |-> IF (n \div 4) % 2 = 0 THEN "text" ELSE "voice",
     cached |-> (n \div 8) % 2 = 0]

\* a function on 1..n that never decreases: one world per renaming of the IDs
Sorted(k) == \A i, j \in DOMAIN k : i < j => k[i] <= k[j]

\* every channel exists on the platform; any of them may be missing from the cache
InitChannel ==
    /\ guilds = TwoGuilds
    /\ remoteGuilds = Range(TwoGuilds)
    /\ \E k \in [1..MaxChannels -> 0..15] :
          LET all == [i \in 1..MaxChannels |->
                        Channel(i, ChannelKind(k[i]).guild, ChannelKind(k[i]).name,
                                ChannelKind(k[i]).type)]
          IN  /\ Sorted(k)
              /\ remoteChannels = Range(all)
              /\ channels = SelectSeq(all,
                     LAMBDA c : \E i \in 1..MaxChannels :
                                   c.id = ChannelId(i) /\ ChannelKind(k[i]).cached)
    /\ roles = <<>>
    /\ remoteRoles = {}
    /\ members = <<>>
    /\ remoteMembers = {}
    /\ messages = {}
    /\ nextId = 1
    /\ disp = <<>>
    /\ script = <<>>
    /\ responses = <<>>
    /\ probe = NoProbe
    /\ main = Running

\* one call of findChannel
CallFindChannel(channelIdentifier, guildIdentifier, net) ==
    LET r == findChannel(World, channelIdentifier, guildIdentifier, net)
    IN  /\ probe = NoProbe
        /\ probe' = [fn |-> "findChannel", ident |-> channelIdentifier,
                     server |-> guildIdentifier, net |-> net,
                     before |-> channels, guild |-> r.guild,
                     out |-> r.out, calls |-> r.calls]
        /\ guilds' = r.guilds
        /\ channels' = r.channels
        /\ UNCHANGED <<remoteGuilds, remoteChannels, roles, remoteRoles,
                       members, remoteMembers, messages, nextId, disp, script, responses,
                       main>>

NextChannel ==
    \E channelIdentifier \in ChannelIdents, guildIdentifier \in ServerIdents,
       net \in [guild : {TRUE}, channel : BOOLEAN] :
          CallFindChannel(channelIdentifier, guildIdentifier, net)

SpecChannel == InitChannel /\ [][NextChannel]_vars

\* the n-th combination of guild, name and cache state of a role: "fresh" is
\* cached as the platform has it, "missing" is not cached, "renamed" is cached
\* under the other name, "deleted" is cached and gone from the platform
RoleKind(n) ==
    [guild |-> IF n % 2 = 0 THEN GuildId(1) ELSE GuildId(2),
     name  |-> IF (n \div 2) % 2 = 0 THEN <<"a">> ELSE <<"B">>,
     stale |-> IF (n \div 2) % 2 = 0 THEN <<"B">> ELSE <<"a">>,
     state |-> <<"fresh", "missing", "renamed", "deleted">>[((n \div 4) % 4) + 1]]

RoleIdents ==
    {Empty} \cup {RoleId(i) : i \in 1..(MaxRoles + 1)}
    \cup {<<"a">>, <<"A">>, <<"b">>, <<"B">>, <<"c">>}

InitRole ==
    /\ guilds = TwoGuilds
    /\ remoteGuilds = Range(TwoGuilds)
    /\ channels = <<>>
    /\ remoteChannels = {}
    /\ \E k \in [1..MaxRoles -> 0..15] :
          LET kind(i) == RoleKind(k[i])
              onPlatform == [i \in 1..MaxRoles |-> Role(i, kind(i).guild, kind(i).name)]
              inCache == [i \in 1..MaxRoles |->
                            Role(i, kind(i).guild,
                                 IF kind(i).state = "renamed" THEN kind(i).stale
                                 ELSE kind(i).name)]
          IN  /\ Sorted(k)
              /\ remoteRoles =
                    {onPlatform[i] : i \in {j \in 1..MaxRoles : kind(j).state # "deleted"}}
              /\ roles = SelectSeq(inCache,
                     LAMBDA r : \E i \in 1..MaxRoles :
                                   r.id = RoleId(i) /\ kind(i).state # "missing")
    /\ members = <<>>
    /\ remoteMembers = {}
    /\ messages = {}
    /\ nextId = 1
    /\ disp = <<>>
    /\ script = <<>>
    /\ responses = <<>>
    /\ probe = NoProbe
    /\ main = Running

\* one call of findRole
CallFindRole(roleIdentifier, guildIdentifier, net) ==
    LET r == findRole(World, roleIdentifier, guildIdentifier, net)
    IN  /\ probe = NoProbe
        /\ probe' = [fn |-> "findRole", ident |-> roleIdentifier,
                     server |-> guildIdentifier, net |-> net,
                     before |-> roles, guild |-> r.guild,
                     out |-> r.out, calls |-> r.calls]
        /\ guilds' = r.guilds
        /\ roles' = r.roles
        /\ UNCHANGED <<remoteGuilds, channels, remoteChannels, remoteRoles,
                       members, remoteMembers, messages, nextId, disp, script, responses,
                       main>>

NextRole ==
    \E roleIdentifier \in RoleIdents, guildIdentifier \in ServerIdents,
       net \in [guild : {TRUE}, roles : BOOLEAN] :
          CallFindRole(roleIdentifier, guildIdentifier, net)

SpecRole == InitRole /\ [][NextRole]_vars

\* the n-th combination of guild, username, nickname and cached-or-not of a member
MemberKind(n) ==
    [guild    |-> IF n % 2 = 0 THEN GuildId(1) ELSE GuildId(2),
     username |-> IF (n \div 2) % 2 = 0 THEN <<"a">> ELSE <<"B">>,
     cached   |-> (n \div 4) % 2 = 0,
     nickname |-> <<Null, <<"N">>, <<"a">>>>[((n \div 8) % 3) + 1]]

MemberIdents ==
    {MemberId(i) : i \in 1..(MaxMembers + 1)}
    \cup {<<"<", "@">> \o MemberId(1) \o <<">">>, <<"<", "@", "!">> \o MemberId(2) \o <<">">>}
    \cup {<<"a", "#", "1">>, <<"A", "#", "1">>, <<"b", "#", "2">>,
          <<"a">>, <<"A">>, <<"b">>, <<"n">>, <<"c">>}

InitMember ==
    /\ guilds = TwoGuilds
    /\ remoteGuilds = Range(TwoGuilds)
    /\ channels = <<>>
    /\ remoteChannels = {}
    /\ roles = <<>>
    /\ remoteRoles = {}
    /\ \E k \in [1..MaxMembers -> 0..23] :
          LET kind(i) == MemberKind(k[i])
              all == [i \in 1..MaxMembers |->
                        Member(i, kind(i).guild, kind(i).username, kind(i).nickname, {})]
          IN  /\ Sorted(k)
              /\ remoteMembers = Range(all)
              /\ members = SelectSeq(all,
                     LAMBDA m : \E i \in 1..MaxMembers :
                                   m.id = MemberId(i) /\ kind(i).cached)
    /\ messages = {}
    /\ nextId = 1
    /\ disp = <<>>
    /\ script = <<>>
    /\ responses = <<>>
    /\ probe = NoProbe
    /\ main = Running

\* one call of findMember
CallFindMember(userIdentifier, guildIdentifier, net) ==
    LET r == findMember(World, userIdentifier, guildIdentifier, net)
    IN  /\ probe = NoProbe
        /\ probe' = [fn |-> "findMember", ident |-> userIdentifier,
                     server |-> guildIdentifier, net |-> net,
                     before |-> members, guild |-> r.guild,
                     out |-> r.out, calls |-> r.calls]
        /\ guilds' = r.guilds
        /\ members' = r.members
        /\ UNCHANGED <<remoteGuilds, channels, remoteChannels, roles, remoteRoles,
                       remoteMembers, messages, nextId, disp, script, responses,
                       main>>

NextMember ==
    \E userIdentifier \in MemberIdents, guildIdentifier \in ServerIdents,
       net \in [guild : {TRUE}, member : BOOLEAN, members : BOOLEAN] :
          CallFindMember(userIdentifier, guildIdentifier, net)

SpecMember == InitMember /\ [][NextMember]_vars

\* a member whose user has a unique username and no discriminator: the tag is
\* the username
Pomelo(i, guildId, username, nickname) ==
    [Member(i, guildId, username, nickname, {}) EXCEPT !.tag = username]

\* the first member of the first server
Rival == Member(1, GuildId(1), <<"a">>, Null, {})

\* second members that another lookup finds for an identifier of the first:
\* by nickname for its ID, by nickname for its tag, by tag for its ID
Lookalikes ==
    {Member(2, GuildId(1), <<"b">>, MemberId(1), {}),
     Member(2, GuildId(1), <<"b">>, <<"a", "#", "1">>, {}),
     Pomelo(2, GuildId(1), MemberId(1), Null)}

\* the identifiers of the first member
RivalIdents ==
    {MemberId(1), <<"<", "@">> \o MemberId(1) \o <<">">>, <<"a", "#", "1">>,
     <<"A", "#", "1">>}

\* the first member and one lookalike in the first server, each cached or not,
\* in either order of the cache
InitPriority ==
    /\ guilds = TwoGuilds
    /\ remoteGuilds = Range(TwoGuilds)
    /\ channels = <<>>
    /\ remoteChannels = {}
    /\ roles = <<>>
    /\ remoteRoles = {}
    /\ \E other \in Lookalikes :
          /\ remoteMembers = {Rival, other}
          /\ members \in {<<>>, <<Rival>>, <<other>>, <<Rival, other>>, <<other, Rival>>}
    /\ messages = {}
    /\ nextId = 1
    /\ disp = <<>>
    /\ script = <<>>
    /\ responses = <<>>
    /\ probe = NoProbe
    /\ main = Running

NextPriority ==
    \E userIdentifier \in RivalIdents,
       net \in [guild : {TRUE}, member : BOOLEAN, members : BOOLEAN] :
          CallFindMember(userIdentifier, GuildId(1), net)

SpecPriority == InitPriority /\ [][NextPriority]_vars

\* the first role of the first server
Original == Role(1, GuildId(1), <<"a">>)

\* second roles that share its name, or are named as its ID
Namesakes == {Role(2, GuildId(1), <<"A">>), Role(2, GuildId(1), RoleId(1))}

\* second members whose username or nickname is the first member's username
Doubles ==
    {Member(2, GuildId(1), <<"A">>, Null, {}), Member(2, GuildId(1), <<"b">>, <<"a">>, {})}

\* the caches that hold some of two entities, in either order
CachesOf(a, b) == {<<>>, <<a>>, <<b>>, <<a, b>>, <<b, a>>}

\* two roles and two members of the first server that one identifier finds
InitDuplicates ==
    /\ guilds = TwoGuilds
    /\ remoteGuilds = Range(TwoGuilds)
    /\ channels = <<>>
    /\ remoteChannels = {}
    /\ \E other \in Namesakes :
          /\ remoteRoles = {Original, other}
          /\ roles \in CachesOf(Original, other)
    /\ \E other \in Doubles :
          /\ remoteMembers = {Rival, other}
          /\ members \in CachesOf(Rival, other)
    /\ messages = {}
    /\ nextId = 1
    /\ disp = <<>>
    /\ script = <<>>
    /\ responses = <<>>
    /\ probe = NoProbe
    /\ main = Running

NextDuplicates ==
    \/ \E roleIdentifier \in {<<"a">>, RoleId(1)}, net \in [guild : {TRUE}, roles : BOOLEAN] :
          CallFindRole(roleIdentifier, GuildId(1), net)
    \/ \E net \in [guild : {TRUE}, member : BOOLEAN, members : BOOLEAN] :
          CallFindMember(<<"a">>, GuildId(1), net)

SpecDuplicates == InitDuplicates /\ [][NextDuplicates]_vars

\* identifiers that are nothing but characters of the mention syntax
MentionOnly == {<<"<", "@", ">">>}

\* one resolution of a role or of a member, of any identifier
InitResolvers == InitRole \/ InitMember

NextResolvers ==
    \/ NextRole
    \/ NextMember
    \/ \E userIdentifier \in MentionOnly, guildIdentifier \in ServerIdents,
          net \in [guild : {TRUE}, member : BOOLEAN, members : BOOLEAN] :
             CallFindMember(userIdentifier, guildIdentifier, net)

SpecResolvers == InitResolvers /\ [][NextResolvers]_vars

-----------------------------------------------------------------------------
(* Tool calls: the request handler from the call to the response *)

\* the requests a client may send at once
Slots == {1}

\* the values a client may give a field of the arguments
Choices(field) ==
    CASE field = "server" -> {Str(GuildId(1)), Str(<<"z">>)}
      [] field = "channel" -> {Str(ChannelId(1)), Str(<<"#", "B">>), Num(7)}
      [] field = "message" -> {Str(<<"h">>)}
      [] field = "limit" -> {Num(0), Num(1), Num(101)}
      [] field = "channels" -> {Arr(<<>>), Arr(<<ChannelId(1), <<"b">>>>)}
      [] field = "limitPerChannel" -> {Num(0), Num(1), Num(51)}
      [] field = "channelName" -> {Str(<<"A">>), Str(<<"B">>), Str(<<"n">>)}
      [] field = "user" -> {Str(MemberId(1)), Str(<<"b">>)}
      [] field = "role" -> {Str(RoleId(1)), Str(<<"B">>)}
      [] field = "roleName" -> {Str(<<"A">>), Str(<<"B">>), Str(<<"n">>)}
      [] field \in {"color", "newColor"} -> {Str(<<"r">>)}
      [] field \in {"permissions", "newPermissions"} ->
            {Arr(<<SendMessages>>), Arr(<<SendMessages, <<"t">>, <<"u">>>>),
             Arr(<<ToStringKey>>)}
      [] field \in {"mentionable", "newMentionable"} -> {Bool(TRUE)}
      [] field = "newName" -> {Str(<<"n">>)}

\* the argument records of a shape: every field absent or given
RECURSIVE ArgSets(_)
ArgSets(schema) ==
    IF schema = <<>> THEN {<<>>}
    ELSE LET rest == ArgSets(Tail(schema))
             name == Head(schema).name
         IN  rest \cup {(name :> v) @@ a : v \in Choices(name), a \in rest}

\* a tool name the switch does not know
UnknownTool == "unknown-tool"

\* the requests a client may send: a tool name, with or without arguments
Requests ==
    {[name |-> name, args |-> args] :
        name \in Tools \cup {UnknownTool}, args \in {NoArguments, <<>>}}
    \cup UNION {{[name |-> name, args |-> args] : args \in ArgSets(SchemaOf(name))} :
                name \in Tools}

\* the platform and the caches after a step
SetWorld(w) ==
    /\ guilds' = w.guilds
    /\ remoteGuilds' = w.remoteGuilds
    /\ channels' = w.channels
    /\ remoteChannels' = w.remoteChannels
    /\ roles' = w.roles
    /\ remoteRoles' = w.remoteRoles
    /\ members' = w.members
    /\ remoteMembers' = w.remoteMembers
    /\ messages' = w.messages
    /\ nextId' = w.nextId

\* the ready client: the guilds are cached, and the rest of the platform is
\* cached or not yet
Ready ==
    /\ \E sole \in BOOLEAN :
          /\ guilds = IF sole THEN <<Guild(1, <<"a">>)>> ELSE TwoGuilds
          /\ remoteGuilds = Range(guilds)
    /\ \E type \in {"text", "voice"}, cached \in BOOLEAN :
          /\ remoteChannels = {Channel(1, GuildId(1), <<"a">>, "text"),
                               Channel(2, GuildId(1), <<"b">>, type)}
          /\ channels = <<Channel(1, GuildId(1), <<"a">>, "text")>>
                        \o (IF cached THEN <<Channel(2, GuildId(1), <<"b">>, type)>>
                            ELSE <<>>)
    /\ \E cached \in BOOLEAN :
          /\ remoteRoles = {Role(1, GuildId(1), <<"a">>), Role(2, GuildId(1), <<"b">>)}
          /\ roles = <<Role(1, GuildId(1), <<"a">>)>>
                     \o (IF cached THEN <<Role(2, GuildId(1), <<"b">>)>> ELSE <<>>)
    /\ \E cached \in BOOLEAN :
          /\ remoteMembers = {Member(1, GuildId(1), <<"a">>, Null, {RoleId(1)}),
                              Member(2, GuildId(1), <<"b">>, Null, {})}
          /\ members = <<Member(1, GuildId(1), <<"a">>, Null, {RoleId(1)})>>
                       \o (IF cached THEN <<Member(2, GuildId(1), <<"b">>, Null, {})>>
                           ELSE <<>>)
    /\ messages = {[id |-> <<"6", "1">>, channel |-> ChannelId(1), author |-> "a#1",
                    content |-> <<"x">>, timestamp |-> 1],
                   [id |-> <<"6", "2">>, channel |-> ChannelId(2), author |-> "b#2",
                    content |-> <<"y">>, timestamp |-> 2]}
    /\ nextId = 1
    /\ disp = [d \in Slots |-> Idle]
    /\ responses = <<>>
    /\ probe = NoProbe
    /\ main = Running

\* the ready client, and a client about to send one request
Init ==
    /\ Ready
    /\ \E q \in Requests : script = <<q>>

\* a request arrives: the handler runs up to its first await
CallTool(d) ==
    /\ d \in DOMAIN disp
    /\ disp[d].pc = "idle"
    /\ script # <<>>
    /\ disp' = [disp EXCEPT ![d] = StartHandler(Head(script).name, Head(script).args,
                                                World)]
    /\ script' = Tail(script)
    /\ UNCHANGED <<guilds, remoteGuilds, channels, remoteChannels, roles, remoteRoles,
                   members, remoteMembers, messages, nextId, responses, probe,
                   main>>

\* the handler has returned or thrown: the response goes to the client
Respond(d) ==
    /\ d \in DOMAIN disp
    /\ disp[d].pc = "done"
    /\ responses' = Append(responses, disp[d].result)
    /\ disp' = [disp EXCEPT ![d] = Idle]
    /\ UNCHANGED <<guilds, remoteGuilds, channels, remoteChannels, roles, remoteRoles,
                   members, remoteMembers, messages, nextId, script, probe,
                   main>>

\* a step of the handler: what it leaves in the caches and on the platform,
\* and where it suspends or ends
Settle(d, step) ==
    /\ SetWorld(step.w)
    /\ disp' = [disp EXCEPT ![d] = step.r]
    /\ UNCHANGED <<script, responses, probe, main>>

\* await findGuild(serverIdentifier) settles
AwaitFindGuild(d, net) ==
    /\ d \in DOMAIN disp
    /\ disp[d].pc = "findGuild"
    /\ Settle(d, FoundGuild(disp[d], World,
                            findGuild(guilds, remoteGuilds,
                                      Field(disp[d].parsed, "server"), net)))

\* await findChannel(channelIdentifier, serverIdentifier) settles
AwaitFindChannel(d, net) ==
    /\ d \in DOMAIN disp
    /\ disp[d].pc = "findChannel"
    /\ Settle(d, FoundChannel(disp[d], World,
                              findChannel(World, Field(disp[d].parsed, "channel"),
                                          Field(disp[d].parsed, "server"), Net(net))))

\* await findMember(userIdentifier, guild.id) settles
AwaitFindMember(d, net) ==
    /\ d \in DOMAIN disp
    /\ disp[d].pc = "findMember"
    /\ Settle(d, FoundMember(disp[d], World,
                             findMember(World, Field(disp[d].parsed, "user"),
                                        disp[d].guild.id, Net(net))))

\* await findRole(roleIdentifier, guild.id) settles
AwaitFindRole(d, net) ==
    /\ d \in DOMAIN disp
    /\ disp[d].pc = "findRole"
    /\ Settle(d, FoundRole(disp[d], World,
                           findRole(World, Field(disp[d].parsed, "role"),
                                    disp[d].guild.id, Net(net))))

\* await Promise.all(channelIdentifiers.map(...)) settles
AwaitFindChannels(d, net) ==
    /\ d \in DOMAIN disp
    /\ disp[d].pc = "findChannels"
    /\ Settle(d, FindChannels(disp[d], World, Net(net)))

\* await channel.messages.fetch({ limit: limitPerChannel }) settles
ReadChannel(d, ok) ==
    /\ d \in DOMAIN disp
    /\ disp[d].pc = "read"
    /\ disp' = [disp EXCEPT ![d] = ReadTarget(disp[d], World, ok)]
    /\ UNCHANGED <<guilds, remoteGuilds, channels, remoteChannels, roles, remoteRoles,
                   members, remoteMembers, messages, nextId, script, responses, probe,
                   main>>

\* the awaited collaborator call settles
Complete(d, ok, synced) ==
    /\ d \in DOMAIN disp
    /\ disp[d].pc = "await"
    /\ Settle(d, Answered(disp[d], World, ok, synced))

Next ==
    \/ \E d \in Slots : CallTool(d)
    \/ \E d \in Slots, net \in BOOLEAN : AwaitFindGuild(d, net)
    \/ \E d \in Slots, net \in BOOLEAN : AwaitFindChannel(d, net)
    \/ \E d \in Slots, net \in BOOLEAN : AwaitFindMember(d, net)
    \/ \E d \in Slots, net \in BOOLEAN : AwaitFindRole(d, net)
    \/ \E d \in Slots, net \in BOOLEAN : AwaitFindChannels(d, net)
    \/ \E d \in Slots, ok \in BOOLEAN : ReadChannel(d, ok)
    \/ \E d \in Slots, ok \in BOOLEAN, synced \in BOOLEAN : Complete(d, ok, synced)
    \/ \E d \in Slots : Respond(d)

Spec == Init /\ [][Next]_vars

-----------------------------------------------------------------------------
(* Startup: main() from the token to the connected server *)

\* the values of DISCORD_TOKEN in the environment: unset, empty, set
Tokens == {Undefined, Empty, Token}

\* main() before its first statement
Starting(token) == [pc |-> "start", token |-> token, calls |-> <<>>]

\* mutation: main() logs in with whatever the environment has
CheckedToken_NoCheck(m) == [m EXCEPT !.pc = "login", !.calls = Append(@, "login")]

\* the test of the token: main() throws when there is none, and calls
\* client.login(token) otherwise
CheckedToken(m) ==
    IF Falsy(m.token) THEN [m EXCEPT !.pc = "thrown"]
    ELSE [m EXCEPT !.pc = "login", !.calls = Append(@, "login")]

\* await client.login(token) settles: main() calls server.connect(transport),
\* or catches the error and exits
LoggedIn(m, ok) ==
    IF ok THEN [m EXCEPT !.pc = "connect", !.calls = Append(@, "connect")]
    ELSE [m EXCEPT !.pc = "exit"]

\* await server.connect(transport) settles: the server runs on stdio, or
\* main() catches the error and exits
Connected(m, ok) == [m EXCEPT !.pc = IF ok THEN "running" ELSE "exit"]

\* the process before main(): the platform has a server with two channels,
\* two roles and two members, the client has cached nothing, the server has
\* no transport, and a client has written one request to stdin
InitStartup ==
    /\ \E token \in Tokens : main = Starting(token)
    /\ remoteGuilds = {Guild(1, <<"a">>)}
    /\ remoteChannels = {Channel(1, GuildId(1), <<"a">>, "text"),
                         Channel(2, GuildId(1), <<"b">>, "text")}
    /\ remoteRoles = {Role(1, GuildId(1), <<"a">>), Role(2, GuildId(1), <<"b">>)}
    /\ remoteMembers = {Member(1, GuildId(1), <<"a">>, Null, {RoleId(1)}),
                        Member(2, GuildId(1), <<"b">>, Null, {})}
    /\ messages = {[id |-> <<"6", "1">>, channel |-> ChannelId(1), author |-> "a#1",
                    content |-> <<"x">>, timestamp |-> 1]}
    /\ guilds = <<>>
    /\ channels = <<>>
    /\ roles = <<>>
    /\ members = <<>>
    /\ nextId = 1
    /\ disp = <<>>
    /\ \E q \in Requests : script = <<q>>
    /\ responses = <<>>
    /\ probe = NoProbe

\* const token = process.env.DISCORD_TOKEN; if (!token) throw ...
CheckToken ==
    /\ main.pc = "start"
    /\ main' = CheckedToken(main)
    /\ UNCHANGED <<guilds, remoteGuilds, channels, remoteChannels, roles, remoteRoles,
                   members, remoteMembers, messages, nextId, disp, script, responses,
                   probe>>

\* await client.login(token) settles
Login(ok) ==
    /\ main.pc = "login"
    /\ main' = LoggedIn(main, ok)
    /\ UNCHANGED <<guilds, remoteGuilds, channels, remoteChannels, roles, remoteRoles,
                   members, remoteMembers, messages, nextId, disp, script, responses,
                   probe>>

\* the client is ready: the gateway has sent the server with its channels
\* and roles, and the first of its members
ClientReady ==
    /\ main.pc \in {"connect", "running"}
    /\ guilds = <<>>
    /\ guilds' = <<Guild(1, <<"a">>)>>
    /\ channels' = <<Channel(1, GuildId(1), <<"a">>, "text"),
                     Channel(2, GuildId(1), <<"b">>, "text")>>
    /\ roles' = <<Role(1, GuildId(1), <<"a">>), Role(2, GuildId(1), <<"b">>)>>
    /\ members' = <<Member(1, GuildId(1), <<"a">>, Null, {RoleId(1)})>>
    /\ UNCHANGED <<remoteGuilds, remoteChannels, remoteRoles, remoteMembers, messages,
                   nextId, disp, script, responses, probe, main>>

\* await server.connect(transport) settles: the transport hands the
\* requests of stdin to the handler from now on
Connect(ok) ==
    /\ main.pc = "connect"
    /\ main' = Connected(main, ok)
    /\ disp' = IF ok THEN [d \in Slots |-> Idle] ELSE disp
    /\ UNCHANGED <<guilds, remoteGuilds, channels, remoteChannels, roles, remoteRoles,
                   members, remoteMembers, messages, nextId, script, responses, probe>>

NextStartup ==
    \/ CheckToken
    \/ \E ok \in BOOLEAN : Login(ok)
    \/ ClientReady
    \/ \E ok \in BOOLEAN : Connect(ok)
    \/ Next

SpecStartup == InitStartup /\ [][NextStartup]_vars

\* the names of the round trip of a role
TeamAlpha == <<"n">>

TeamBravo == <<"c">>

\* a request with string arguments for the first guild
Request(name, args) == [name |-> name, args |-> ("server" :> Str(GuildId(1))) @@ args]

\* the round trip of a role: created, listed, renamed, listed, deleted, listed
RoundTrip ==
    <<Request("create-role", "roleName" :> Str(TeamAlpha)),
      Request("list-roles", <<>>),
      Request("update-role", ("role" :> Str(TeamAlpha)) @@ ("newName" :> Str(TeamBravo))),
      Request("list-roles", <<>>),
      Request("delete-role", "role" :> Str(TeamBravo)),
      Request("list-roles", <<>>)>>

\* the ready client, and a client about to send the round trip, each request
\* after the response to the one before
InitRoundTrip ==
    /\ Ready
    /\ script = RoundTrip

NextRoundTrip ==
    \/ \E d \in Slots : CallTool(d)
    \/ \E d \in Slots, net \in BOOLEAN : AwaitFindGuild(d, net)
    \/ \E d \in Slots, net \in BOOLEAN : AwaitFindRole(d, net)
    \/ \E d \in Slots, ok \in BOOLEAN, synced \in BOOLEAN : Complete(d, ok, synced)
    \/ \E d \in Slots : Respond(d)

SpecRoundTrip == InitRoundTrip /\ [][NextRoundTrip]_vars

(* Two tool calls in flight: the transport hands over the second request
   while the handler of the first is suspended *)

PairSlots == {1, 2}

\* the field of a creating tool that names what it creates
NameField(name) == IF name = "create-channel" THEN "channelName" ELSE "roleName"

\* two requests to create a channel, or a role, of the same name up to case
CreationPairs ==
    {<<Request(name, NameField(name) :> Str(TeamAlpha)),
       Request(name, NameField(name) :> Str(other))>> :
        name \in {"create-channel", "create-role"}, other \in {TeamAlpha, <<"N">>}}

\* a server with a channel and a role, all cached, and a client that sends
\* two requests without waiting for the first response
InitPair ==
    /\ guilds = <<Guild(1, <<"a">>)>>
    /\ remoteGuilds = {Guild(1, <<"a">>)}
    /\ channels = <<Channel(1, GuildId(1), <<"a">>, "text")>>
    /\ remoteChannels = {Channel(1, GuildId(1), <<"a">>, "text")}
    /\ roles = <<Role(1, GuildId(1), <<"a">>)>>
    /\ remoteRoles = {Role(1, GuildId(1), <<"a">>)}
    /\ members = <<>>
    /\ remoteMembers = {}
    /\ messages = {}
    /\ nextId = 1
    /\ disp = [d \in PairSlots |-> Idle]
    /\ script \in CreationPairs
    /\ responses = <<>>
    /\ probe = NoProbe
    /\ main = Running

NextPair ==
    \/ \E d \in PairSlots : CallTool(d)
    \/ \E d \in PairSlots, net \in BOOLEAN : AwaitFindGuild(d, net)
    \/ \E d \in PairSlots, ok \in BOOLEAN, synced \in BOOLEAN : Complete(d, ok, synced)
    \/ \E d \in PairSlots : Respond(d)

SpecPair == InitPair /\ [][NextPair]_vars

\* a role is assigned to a member, then the holders of a role are counted
AssignThenCount ==
    {<<Request("assign-role", ("user" :> u) @@ ("role" :> assigned)),
       Request("get-role-member-count", "role" :> counted)>> :
        u \in Choices("user"), assigned \in Choices("role"), counted \in Choices("role")}

InitCount ==
    /\ Ready
    /\ script \in AssignThenCount

NextCount ==
    \/ \E d \in Slots : CallTool(d)
    \/ \E d \in Slots, net \in BOOLEAN : AwaitFindGuild(d, net)
    \/ \E d \in Slots, net \in BOOLEAN : AwaitFindMember(d, net)
    \/ \E d \in Slots, net \in BOOLEAN : AwaitFindRole(d, net)
    \/ \E d \in Slots, ok \in BOOLEAN, synced \in BOOLEAN : Complete(d, ok, synced)
    \/ \E d \in Slots : Respond(d)

SpecCount == InitCount /\ [][NextCount]_vars

\* the requests that name a tool the switch has a case for
DeclaredRequests == {q \in Requests : q.name \in Tools}

\* the requests that name no such tool
UnknownRequests == Requests \ DeclaredRequests

\* a client about to send a request for an unknown tool and then, after the
\* response, a request for a declared one
InitAfterUnknown ==
    /\ Ready
    /\ \E u \in UnknownRequests, q \in DeclaredRequests : script = <<u, q>>

SpecAfterUnknown == InitAfterUnknown /\ [][Next]_vars

\* the servers a request may name when two are joined: the first by its ID,
\* the second by its name, and one that is not joined
ServerChoices == {Str(GuildId(1)), Str(<<"B">>), Str(<<"z">>)}

\* the requests of a declared tool, each naming one of these servers
ServerRequests ==
    {[name |-> q.name, args |-> ("server" :> s) @@ q.args] :
        q \in {x \in DeclaredRequests : x.args # NoArguments}, s \in ServerChoices}

\* the ready client in two servers, the first entity of each kind in the
\* first one and the second in the second one, about to send one request
InitTwoServers ==
    /\ guilds = TwoGuilds
    /\ remoteGuilds = Range(guilds)
    /\ \E cached \in BOOLEAN :
          /\ remoteChannels = {Channel(1, GuildId(1), <<"a">>, "text"),
                               Channel(2, GuildId(2), <<"b">>, "text")}
          /\ channels = <<Channel(1, GuildId(1), <<"a">>, "text")>>
                        \o (IF cached THEN <<Channel(2, GuildId(2), <<"b">>, "text")>>
                            ELSE <<>>)
    /\ \E cached \in BOOLEAN :
          /\ remoteRoles = {Role(1, GuildId(1), <<"a">>), Role(2, GuildId(2), <<"b">>)}
          /\ roles = <<Role(1, GuildId(1), <<"a">>)>>
                     \o (IF cached THEN <<Role(2, GuildId(2), <<"b">>)>> ELSE <<>>)
    /\ \E cached \in BOOLEAN :
          /\ remoteMembers = {Member(1, GuildId(1), <<"a">>, Null, {RoleId(1)}),
                              Member(2, GuildId(2), <<"b">>, Null, {})}
          /\ members = <<Member(1, GuildId(1), <<"a">>, Null, {RoleId(1)})>>
                       \o (IF cached THEN <<Member(2, GuildId(2), <<"b">>, Null, {})>>
                           ELSE <<>>)
    /\ messages = {[id |-> <<"6", "1">>, channel |-> ChannelId(1), author |-> "a#1",
                    content |-> <<"x">>, timestamp |-> 1],
                   [id |-> <<"6", "2">>, channel |-> ChannelId(2), author |-> "b#2",
                    content |-> <<"y">>, timestamp |-> 2]}
    /\ nextId = 1
    /\ disp = [d \in Slots |-> Idle]
    /\ responses = <<>>
    /\ probe = NoProbe
    /\ main = Running
    /\ \E q \in ServerRequests : script = <<q>>

SpecTwoServers == InitTwoServers /\ [][Next]_vars

-----------------------------------------------------------------------------
(* Claims about the tool-call handler, checked under Spec *)

\* the tool calls that have started
Started == {d \in DOMAIN disp : disp[d].pc # "idle"}

\* the required fields of a tool's shape that the arguments lack
MissingRequired(name, args) ==
    {f.name : f \in {g \in Range(SchemaOf(name)) : g.required /\ g.name \notin DOMAIN args}}

\* the tool calls of a declared tool whose arguments lack a required field
LackingRequired ==
    {d \in Started : /\ disp[d].name \in Tools
                      /\ MissingRequired(disp[d].name, disp[d].args) # {}}

\* C1: a call of a declared tool whose arguments lack a required field has
\* ended in a validation error with an issue on every such field, has called
\* no resolver and no collaborator, and has not ended in NotFound.
C1_MissingFieldIsValidationError ==
    \A d \in LackingRequired :
        LET r == disp[d]
        IN  /\ r.pc = "done"
            /\ r.result.status = "failure"
            /\ r.result.kind = "ValidationError"
            /\ r.result.kind # "NotFound"
            /\ \A field \in MissingRequired(r.name, r.args) :
                  \E i \in DOMAIN r.result.issues : r.result.issues[i].path = field
            /\ r.calls = <<>>
            /\ r.pending = NoCall

\* the finished calls of a tool
Finished(name) == {d \in Started : disp[d].pc = "done" /\ disp[d].name = name}

\* the finished calls of read-multiple-channels that resolved the server and
\* were given an explicit, non-empty list of target channels
ExplicitTargets ==
    {d \in Finished("read-multiple-channels") :
        /\ disp[d].guild # NoEntity
        /\ Given(disp[d].parsed, "channels")
        /\ Len(Field(disp[d].parsed, "channels")) > 0}

\* the error entries of a list of entries
ErrorEntries(items) == Filter(items, LAMBDA e : "error" \in DOMAIN e)

\* C11: read-multiple-channels with an explicit list of target channels
\* succeeds even if resolving a target or reading a target fails: the
\* result has the messages of the other targets and one error entry for each
\* failed target.
C11_TargetFailureIsErrorEntry ==
    \A d \in ExplicitTargets :
        LET r == disp[d]
        IN  /\ r.result.status = "success"
            /\ Len(r.targets) = Len(Field(r.parsed, "channels"))
            /\ Len(r.result.payload.items) = Len(r.items)
            /\ Range(r.result.payload.items) = Range(r.items)
            /\ Len(ErrorEntries(r.result.payload.items)) <= Len(r.targets)

\* whether an entry of the result is a message
IsMessage(e) == "timestamp" \in DOMAIN e

\* whether a list of entries has its messages newest first
NewestMessagesFirst(items) ==
    \A i, j \in DOMAIN items :
        i < j /\ IsMessage(items[i]) /\ IsMessage(items[j])
            => items[i].timestamp >= items[j].timestamp

\* whether every error entry of a list comes after every message
ErrorEntriesLast(items) ==
    \A i, j \in DOMAIN items : i < j /\ IsMessage(items[j]) => IsMessage(items[i])

\* C12: the list read-multiple-channels returns has its messages in
\* descending order of timestamp, and every error entry after every message.
C12_NewestFirstErrorsLast ==
    \A d \in Finished("read-multiple-channels") :
        disp[d].result.status = "success"
            => /\ NewestMessagesFirst(disp[d].result.payload.items)
               /\ ErrorEntriesLast(disp[d].result.payload.items)

\* the collaborator calls that change the platform
Mutations ==
    {"channel.send", "channels.create", "roles.create", "role.delete", "role.edit",
     "member.roles.add", "member.roles.remove"}

\* whether a tool call has issued no mutation and awaits none
NoMutation(r) ==
    /\ \A i \in DOMAIN r.calls : r.calls[i] \notin Mutations
    /\ r.pending = NoCall

\* the started calls of a tool that have resolved both the member and the role
MemberAndRoleResolved(name) ==
    {d \in Started : /\ disp[d].name = name
                      /\ disp[d].member # NoEntity
                      /\ disp[d].role # NoEntity}

\* C13: assign-role for a member whose cached role set already contains the
\* resolved role's ID has failed with Conflict and has issued no add-role
\* call and no other mutation.
C13_AssignHeldRoleConflicts ==
    \A d \in MemberAndRoleResolved("assign-role") :
        HasRole(disp[d].member, disp[d].role)
            => /\ disp[d].pc = "done"
               /\ disp[d].result.status = "failure"
               /\ disp[d].result.kind = "Conflict"
               /\ NoMutation(disp[d])

\* assign-role has found the member holding the role and has ended in Conflict
C13_Witness ==
    \E d \in MemberAndRoleResolved("assign-role") :
        /\ HasRole(disp[d].member, disp[d].role)
        /\ disp[d].pc = "done"
        /\ disp[d].result.kind = "Conflict"
        /\ disp[d].calls # <<>>

\* C14: remove-role for a member whose cached role set does not contain the
\* resolved role's ID has failed with Conflict and has issued no remove-role
\* call and no other mutation.
C14_RemoveMissingRoleConflicts ==
    \A d \in MemberAndRoleResolved("remove-role") :
        ~HasRole(disp[d].member, disp[d].role)
            => /\ disp[d].pc = "done"
               /\ disp[d].result.status = "failure"
               /\ disp[d].result.kind = "Conflict"
               /\ NoMutation(disp[d])

\* remove-role has found the member without the role and has ended in Conflict
C14_Witness ==
    \E d \in MemberAndRoleResolved("remove-role") :
        /\ ~HasRole(disp[d].member, disp[d].role)
        /\ disp[d].pc = "done"
        /\ disp[d].result.kind = "Conflict"
        /\ disp[d].calls # <<>>

\* the started calls of a tool that have resolved the server
GuildResolved(name) ==
    {d \in Started : disp[d].name = name /\ disp[d].guild # NoEntity}

\* the entities of a set other than the one the tool call itself has created
Others(set, r) ==
    IF r.pc = "done" /\ r.result.status = "success"
    THEN {e \in set : e.id # r.result.payload.id}
    ELSE set

\* whether a text channel of the server among the given ones has the name,
\* ignoring case
ChannelNameTaken(set, r) ==
    \E c \in Others(set, r) :
        /\ c.guild = r.guild.id
        /\ c.type = "text"
        /\ ToLowerCase(c.name) = ToLowerCase(Field(r.parsed, "channelName"))

\* whether a role of the server among the given ones has the name, ignoring case
RoleNameTaken(set, r) ==
    \E x \in Others(set, r) :
        /\ x.guild = r.guild.id
        /\ ToLowerCase(x.name) = ToLowerCase(Field(r.parsed, "roleName"))

\* whether a tool call has failed with Conflict without issuing a mutation
ConflictWithoutMutation(r) ==
    /\ r.pc = "done"
    /\ r.result.status = "failure"
    /\ r.result.kind = "Conflict"
    /\ NoMutation(r)

SuppliedPermissions(r) ==
    IF r.name = "create-role" /\ Given(r.parsed, "permissions")
    THEN Field(r.parsed, "permissions")
    ELSE IF r.name = "update-role" /\ Given(r.parsed, "newPermissions")
    THEN Field(r.parsed, "newPermissions")
    ELSE <<>>

\* the supplied names that are not permission flags of the platform
NotFlags(r) == SelectSeq(SuppliedPermissions(r), LAMBDA p : p \notin PermissionFlags)

\* the calls of create-role and update-role that have come to the validation
\* of the permissions
ValidatingPermissions ==
    {d \in GuildResolved("create-role") : ~RoleNameTaken(Range(roles), disp[d])}
    \cup {d \in Started : disp[d].name = "update-role" /\ disp[d].role # NoEntity}

\* C16: create-role and update-role with a supplied permission string that is
\* not a permission flag of the platform have failed with an error that names
\* the first such string and lists all valid names, and have issued no role
\* create call and no role edit call.
C16_InvalidPermissionRejected ==
    \A d \in ValidatingPermissions :
        NotFlags(disp[d]) # <<>>
            => /\ disp[d].pc = "done"
               /\ disp[d].result.status = "failure"
               /\ disp[d].result.kind = "InvalidPermission"
               /\ disp[d].result.error.ident = NotFlags(disp[d])[1]
               /\ Range(disp[d].result.error.list) = PermissionFlags
               /\ NoMutation(disp[d])

-----------------------------------------------------------------------------
(* Claims about the limit of a message fetch, checked under Spec *)

\* the tools that fetch messages, and the argument that limits each fetch
Readers == {"read-messages", "read-multiple-channels"}

LimitField(name) == IF name = "read-messages" THEN "limit" ELSE "limitPerChannel"

\* the greatest limit a fetch may have, and the limit when none is supplied
LimitCap(name) == IF name = "read-messages" THEN 100 ELSE 50

LimitDefault(name) == IF name = "read-messages" THEN 50 ELSE 10

\* the tool calls that have issued a fetch of messages
Fetching ==
    {d \in Started : /\ disp[d].name \in Readers
                      /\ \E i \in DOMAIN disp[d].calls : disp[d].calls[i] = "messages.fetch"}

\* the limit of the fetches of a tool call
FetchLimit(r) ==
    IF r.name = "read-messages" THEN r.pending.limit
    ELSE Field(r.parsed, "limitPerChannel")

\* the tool calls that were supplied a number above the cap as the limit
AboveCap ==
    {d \in Started : /\ disp[d].name \in Readers
                      /\ disp[d].args # NoArguments
                      /\ LimitField(disp[d].name) \in DOMAIN disp[d].args
                      /\ disp[d].args[LimitField(disp[d].name)].t = "number"
                      /\ disp[d].args[LimitField(disp[d].name)].v > LimitCap(disp[d].name)}

\* every fetch has a limit from 1 to the cap, the default one when none is
\* supplied
LimitWithinBounds ==
    \A d \in Fetching :
        LET r == disp[d]
        IN  /\ FetchLimit(r) >= 1
            /\ FetchLimit(r) <= LimitCap(r.name)
            /\ LimitField(r.name) \notin DOMAIN r.args
                  => FetchLimit(r) = LimitDefault(r.name)

\* C23 as stated: every fetch of messages has a limit from 1 to the cap, 50
\* (read-messages) or 10 (read-multiple-channels) when none is supplied, and
\* a supplied limit above the cap is capped: the call goes on with the cap as
\* its limit.
C23_Original ==
    /\ LimitWithinBounds
    /\ \A d \in AboveCap :
          /\ ~(disp[d].pc = "done" /\ disp[d].result.status = "failure"
               /\ disp[d].result.kind = "ValidationError")
          /\ d \in Fetching => FetchLimit(disp[d]) = LimitCap(disp[d].name)

\* C23, amended: every fetch of messages has a limit from 1 to the cap, 50
\* (read-messages) or 10 (read-multiple-channels) when none is supplied and
\* the supplied one otherwise; a supplied limit above the cap is not capped
\* but rejected as a validation error, and no fetch is issued.
C23_LimitWithinBoundsOrRejected ==
    /\ LimitWithinBounds
    /\ \A d \in Fetching :
          LimitField(disp[d].name) \in DOMAIN disp[d].args
              => FetchLimit(disp[d]) = disp[d].args[LimitField(disp[d].name)].v
    /\ \A d \in AboveCap :
          /\ disp[d].pc = "done"
          /\ disp[d].result.status = "failure"
          /\ disp[d].result.kind = "ValidationError"
          /\ \E i \in DOMAIN disp[d].result.issues :
                disp[d].result.issues[i].path = LimitField(disp[d].name)
          /\ disp[d].calls = <<>>

\* messages were fetched from several channels with the default limit
C23_Witness ==
    \E d \in Fetching :
        /\ disp[d].name = "read-multiple-channels"
        /\ "limitPerChannel" \notin DOMAIN disp[d].args
        /\ disp[d].pc = "done"
        /\ disp[d].result.status = "success"
        /\ FetchLimit(disp[d]) = 10

-----------------------------------------------------------------------------
(* Claims about sequences of tool calls, checked under SpecRoundTrip *)

\* whether the first n responses are all successes
Succeeded(n) ==
    /\ Len(responses) >= n
    /\ \A i \in 1..n : responses[i].status = "success"

\* the roles of a listing that have the name
Listed(listing, name) ==
    {listing.roles[i].id : i \in {j \in DOMAIN listing.roles : listing.roles[j].name = name}}

\* C17: in the round trip create-role(A), list-roles, update-role(A to B),
\* list-roles, delete-role(B), list-roles, as far as every call succeeds, the
\* first listing has A, the second has B under the ID A had and has no A, and
\* the third has no B.
C17_RoleRoundTrip ==
    /\ Succeeded(2)
          => responses[1].payload.id \in Listed(responses[2].payload, TeamAlpha)
    /\ Succeeded(4)
          => /\ responses[1].payload.id \in Listed(responses[4].payload, TeamBravo)
             /\ Listed(responses[4].payload, TeamAlpha) = {}
    /\ Succeeded(6)
          => Listed(responses[6].payload, TeamBravo) = {}

\* the whole round trip has succeeded
C17_Witness == Len(responses) = Len(RoundTrip) /\ Succeeded(Len(RoundTrip))

-----------------------------------------------------------------------------
(* Claims about counting the holders of a role, checked under SpecCount *)

\* the members of the server that hold the role on the platform
Holders(guild, role) ==
    {m \in remoteMembers : m.guild = guild.id /\ role.id \in m.roles}

\* whether the call was issued after the resolver had settled
CalledAfter(r, call, resolver) ==
    \E i, j \in DOMAIN r.calls : i < j /\ r.calls[i] = resolver /\ r.calls[j] = call

\* C18: get-role-member-count that succeeds has refreshed all the members of
\* the server after resolving the role, and reports the number of members of
\* the resolved server whose role set contains the resolved role's ID.
C18_CountsHoldersAfterRefresh ==
    \A d \in Finished("get-role-member-count") :
        disp[d].result.status = "success"
            => /\ CalledAfter(disp[d], "members.fetch", "findRole")
               /\ disp[d].result.payload.count
                     = Cardinality(Holders(disp[d].guild, disp[d].role))

\* a count has been reported of a role that a member not cached at first, or
\* one whose cached role set was stale, holds
C18_Witness ==
    \E d \in Finished("get-role-member-count") :
        /\ disp[d].result.status = "success"
        /\ disp[d].result.payload.count = 2
        /\ Len(responses) = 1

-----------------------------------------------------------------------------
(* Claims about the outcome of a tool call, checked under Spec *)

\* the tool calls that have ended
Ended == {d \in Started : disp[d].pc = "done"}

\* whether the arguments give a field a value its declaration rejects
Rejected(f, args) ==
    /\ f.name \in DOMAIN args
    /\ \/ args[f.name].t # f.type
       \/ f.type = "number" /\ (args[f.name].v < f.min \/ args[f.name].v > f.max)

\* the fields of a tool's shape that an arguments object violates
ViolatedFields(name, args) ==
    {f.name : f \in {g \in Range(SchemaOf(name)) :
                        (g.required /\ g.name \notin DOMAIN args) \/ Rejected(g, args)}}

\* whether the arguments of a call of a declared tool fail its validation
FailsValidation(r) ==
    /\ r.name \in Tools
    /\ r.args = NoArguments \/ ViolatedFields(r.name, r.args) # {}

\* the failures that are not validation failures
OtherFailures ==
    {"NotFound", "Ambiguous", "AmbiguousContext", "Conflict", "InvalidPermission",
     "NoUpdate", "UnknownTool", "CollaboratorError"}

\* a validation failure's message: one pair for every violated field of the
\* arguments object, or the pair of the root when there is no such object
ListsEveryViolation(r) ==
    /\ r.result.prefix = "Invalid arguments: "
    /\ r.result.kind = "ValidationError"
    /\ IF r.args = NoArguments
       THEN r.result.issues = NotAnObject
       ELSE /\ {r.result.issues[i].path : i \in DOMAIN r.result.issues}
                  = ViolatedFields(r.name, r.args)
            /\ Len(r.result.issues) = Cardinality(ViolatedFields(r.name, r.args))

\* any other failure's message: the fixed prefix, then the error as thrown
WrapsTheError(r) ==
    /\ r.result.prefix = "Tool execution failed: "
    /\ r.result.kind \in OtherFailures
    /\ r.result.error.kind = r.result.kind
    /\ ~r.result.error.ok
    /\ r.name \notin Tools
          <=> r.result.error = Throw("UnknownTool", Empty, <<r.name>>)

-----------------------------------------------------------------------------
(* Claims about a call of an unknown tool, checked under SpecAfterUnknown *)

\* the tool calls that name a tool the switch has no case for
UnknownCalls == {d \in Started : disp[d].name \notin Tools}

\* whether the step is taken while an unknown tool is called or about to be
HandlingUnknown ==
    \/ UnknownCalls # {}
    \/ script # <<>> /\ Head(script).name \notin Tools

\* C20: a call of a tool that is none of the 14 declared ones fails with the
\* unknown-tool error and makes no resolver and no collaborator call; from
\* the request to the response neither the platform nor a cache changes, so
\* the declared tool called next meets the state it would have met without it.
C20_UnknownToolFailsAlone ==
    /\ [](\A d \in UnknownCalls :
             /\ disp[d].pc = "done"
             /\ disp[d].result
                   = ExecutionFailed(Throw("UnknownTool", Empty, <<disp[d].name>>))
             /\ disp[d].calls = <<>>
             /\ disp[d].pending = NoCall)
    /\ [][HandlingUnknown => World' = World]_vars

\* the declared tool called after the unknown one has been served, and has
\* succeeded or has changed the platform
C20_Witness ==
    /\ Len(responses) = 2
    /\ responses[1].status = "failure"
    /\ responses[1].kind = "UnknownTool"
    /\ responses[2].status = "success"
    /\ nextId > 1

-----------------------------------------------------------------------------
(* Claims about findGuild, checked under SpecGuild *)

GuildProbe == probe.fn = "findGuild"

\* the names of the guilds of a cache
NamesOf(cache) == {cache[i].name : i \in DOMAIN cache}

\* C2: findGuild called with no identifier succeeds if and only if exactly one
\* server is joined, and then returns that server; with zero or with two or
\* more joined servers it fails AmbiguousContext, and the message lists the
\* name of every joined server.
C2_NoIdentifier ==
    (GuildProbe /\ probe.ident = Undefined) =>
        /\ probe.out.ok <=> Cardinality(Range(probe.before)) = 1
        /\ probe.out.ok => Range(probe.before) = {probe.out.value}
        /\ ~probe.out.ok =>
              /\ probe.out.kind = "AmbiguousContext"
              /\ NamesOf(probe.before) = Range(probe.out.list)
              /\ Len(probe.out.list) = Len(probe.before)

C2_Witness ==
    /\ GuildProbe /\ probe.ident = Undefined
    /\ ~probe.out.ok
    /\ Cardinality(NamesOf(probe.before)) >= 2

\* the cached guilds whose name equals the identifier ignoring case
SameIgnoringCase(x, y) ==
    /\ Len(x) = Len(y)
    /\ \A i \in DOMAIN x : LowerChar(x[i]) = LowerChar(y[i])

GuildsNamed(cache, ident) == {g \in Range(cache) : SameIgnoringCase(g.name, ident)}

\* whether the fetch-by-ID of the probe was answered with a guild
ProbeFetchedGuild ==
    \/ \E g \in Range(probe.before) : g.id = probe.ident
    \/ probe.net /\ \E g \in remoteGuilds : g.id = probe.ident

\* what C3 says of one call of findGuild with an identifier
FetchThenNameMatch ==
    /\ probe.calls = <<"guilds.fetch">>
    /\ ProbeFetchedGuild =>
          /\ probe.out.ok
          /\ probe.out.value.id = probe.ident
          /\ probe.out.value \in Range(probe.before) \cup remoteGuilds
    /\ ~ProbeFetchedGuild =>
          LET named == GuildsNamed(probe.before, probe.ident)
          IN  /\ named = {} =>
                    /\ probe.out.kind = "NotFound"
                    /\ Range(probe.out.list) = NamesOf(probe.before)
              /\ Cardinality(named) = 1 =>
                    probe.out.ok /\ probe.out.value \in named
              /\ Cardinality(named) >= 2 =>
                    /\ probe.out.kind = "Ambiguous"
                    /\ Range(probe.out.list) =
                          {[name |-> g.name, id |-> g.id] : g \in named}

\* C3 as stated: every call with an identifier tries fetch-by-ID first, and
\* falls back to the case-insensitive name match.
C3_Original == (GuildProbe /\ probe.ident # Undefined) => FetchThenNameMatch

\* C3, amended: every call with a non-empty identifier tries fetch-by-ID first
\* and returns the fetched server; when the fetch fails the identifier is
\* matched case-insensitively against the cached names: no match fails
\* NotFound listing all joined names, one match returns it, several fail
\* Ambiguous listing each match with its ID.
C3_NonEmptyIdentifier ==
    (GuildProbe /\ ~Falsy(probe.ident)) => FetchThenNameMatch

C3_Witness ==
    /\ GuildProbe /\ ~Falsy(probe.ident)
    /\ probe.out.kind = "Ambiguous"
    /\ Len(probe.out.list) >= 2
    /\ Len(probe.before) > Len(probe.out.list)

-----------------------------------------------------------------------------
(* Claims about findChannel, checked under SpecChannel *)

\* a findChannel call whose guild was resolved
ChannelProbe == probe.fn = "findChannel" /\ probe.guild.ok

ResolvedGuild == probe.guild.value

\* an identifier without its leading channel sigil
StripSigil(x) == IF x # <<>> /\ x[1] = "#" THEN Tail(x) ELSE x

\* the cached text channels of a guild that a name addresses, in any letter
\* case, with or without the sigil
TextChannelsNamed(cache, guild, ident) ==
    {c \in Range(cache) : /\ c.guild = guild.id
                          /\ c.type = "text"
                          /\ SameIgnoringCase(c.name, StripSigil(ident))}

\* the cached text channels of a guild
TextChannelsOf(cache, guild) ==
    {c \in Range(cache) : c.guild = guild.id /\ c.type = "text"}

\* the channels the fetch-by-ID of the probe can be answered with
ProbeFetchable ==
    {c \in Range(probe.before) : c.id = probe.ident}
    \cup {c \in remoteChannels : probe.net.channel /\ c.id = probe.ident}

\* C4: a name that matches exactly one text channel of the resolved server
\* resolves to that channel, in every letter case and with or without the
\* leading sigil.
C4_OneMatchAnyCaseAnySigil ==
    ChannelProbe =>
        LET named == TextChannelsNamed(probe.before, ResolvedGuild, probe.ident)
        IN  Cardinality(named) = 1 => (probe.out.ok /\ probe.out.value \in named)

C4_Witness ==
    /\ ChannelProbe
    /\ probe.ident = <<"#", "A">>
    /\ probe.out.ok
    /\ probe.out.value.name = <<"a">>
    /\ \E c \in Range(probe.before) :
          c.guild = ResolvedGuild.id /\ c.type = "voice" /\ c.name = <<"a">>

\* C5: a name that matches two or more text channels of the resolved server
\* fails Ambiguous, listing every match with its ID, and returns none.
C5_SeveralMatchesAmbiguous ==
    ChannelProbe =>
        LET named == TextChannelsNamed(probe.before, ResolvedGuild, probe.ident)
        IN  Cardinality(named) >= 2 =>
              /\ ~probe.out.ok
              /\ probe.out.kind = "Ambiguous"
              /\ Range(probe.out.list) = {[name |-> c.name, id |-> c.id] : c \in named}

C5_Witness ==
    /\ ChannelProbe
    /\ probe.out.kind = "Ambiguous"
    /\ Cardinality(TextChannelsNamed(probe.before, ResolvedGuild, probe.ident)) >= 2
    /\ Cardinality(TextChannelsOf(probe.before, ResolvedGuild)) >= 3

\* C6: the ID of a channel of another server than the resolved one fails
\* with a not-found error, and a returned channel always belongs to the
\* resolved server.
C6_NoCrossServerChannel ==
    ChannelProbe =>
        /\ (\E c \in Range(probe.before) \cup remoteChannels :
               c.id = probe.ident /\ c.guild # ResolvedGuild.id)
              => (~probe.out.ok /\ probe.out.kind = "NotFound")
        /\ probe.out.ok => probe.out.value.guild = ResolvedGuild.id

C6_Witness ==
    /\ ChannelProbe
    /\ \E c \in ProbeFetchable : c.guild # ResolvedGuild.id /\ c.type = "text"
    /\ probe.out.kind = "NotFound"

\* C7: no channel that is not a text channel is ever returned: it is
\* rejected when addressed by its exact ID, and it is in neither the NotFound
\* nor the Ambiguous list of candidates.
C7_OnlyTextChannels ==
    ChannelProbe =>
        /\ probe.out.ok => probe.out.value.type = "text"
        /\ (\E c \in ProbeFetchable : c.type # "text") => ~probe.out.ok
        /\ (probe.out.kind = "Ambiguous") =>
              \A e \in Range(probe.out.list) :
                 \E c \in TextChannelsOf(probe.before, ResolvedGuild) : c.id = e.id
        /\ (probe.out.kind = "NotFound" /\ ProbeFetchable = {}) =>
              /\ Len(probe.out.list) =
                    Cardinality(TextChannelsOf(probe.before, ResolvedGuild))
              /\ Range(probe.out.list) =
                    {c.name : c \in TextChannelsOf(probe.before, ResolvedGuild)}

C7_Witness ==
    /\ ChannelProbe
    /\ \E c \in ProbeFetchable : c.type = "voice" /\ c.guild = ResolvedGuild.id
    /\ ~probe.out.ok

-----------------------------------------------------------------------------
(* Claims about the refresh before NotFound *)

\* the collaborator calls that refresh a whole cached collection
IsRefresh(call) == call \in {"roles.fetch", "members.fetch"}

Refreshes(calls) == Len(SelectSeq(calls, IsRefresh))

\* C8: in each resolver a NotFound outcome caused by a cache miss is reached
\* only after one explicit refresh of the cached collection was attempted in
\* the same resolution.  Stated for findChannel: the ID fetch and the name
\* match both missed.
C8_RefreshBeforeNotFound ==
    (ChannelProbe /\ probe.out.kind = "NotFound" /\ ProbeFetchable = {})
        => Refreshes(probe.calls) >= 1

-----------------------------------------------------------------------------
(* Claims about findRole, checked under SpecRole *)

\* a findRole call whose guild was resolved
RoleProbe == probe.fn = "findRole" /\ probe.guild.ok

\* the roles of the resolved guild, among rs, that the identifier addresses
\* by ID or by name in any letter case
RolesAddressed(rs) ==
    {r \in rs : /\ r.guild = ResolvedGuild.id
                /\ (r.id = probe.ident \/ SameIgnoringCase(r.name, probe.ident))}

\* C9: when the identifier misses the role cache, findRole refreshes the roles
\* once; if the refresh succeeds and the platform has a role of the resolved
\* server with that ID or (ignoring case) that name, that role is returned,
\* and NotFound is the outcome only if the refreshed cache has no such role,
\* its message listing the names of the roles then cached.
C9_RoleFoundAfterRefresh ==
    (RoleProbe /\ RolesAddressed(Range(probe.before)) = {}) =>
        /\ Refreshes(probe.calls) = 1
        /\ (probe.net.roles /\ RolesAddressed(remoteRoles) # {}) =>
              (probe.out.ok /\ probe.out.value \in RolesAddressed(remoteRoles))
        /\ (probe.net.roles /\ ~probe.out.ok) =>
              /\ probe.out.kind = "NotFound"
              /\ RolesAddressed(Range(roles)) = {}
              /\ Range(probe.out.list) =
                    {r.name : r \in {x \in Range(roles) : x.guild = ResolvedGuild.id}}

C9_Witness ==
    /\ RoleProbe
    /\ probe.ident = <<"A">>
    /\ probe.out.ok
    /\ \A r \in Range(probe.before) : r.id # probe.out.value.id

\* a findRole call whose explicit refresh of the roles was issued and failed
RoleRefreshFailed ==
    /\ RoleProbe
    /\ Refreshes(probe.calls) >= 1
    /\ ~probe.net.roles

\* C21: when the refresh-all call made inside findRole (likewise findMember)
\* fails, the failure is the outcome of the resolution, with the
\* collaborator's error preserved; it is not replaced by NotFound, and the
\* refresh is not retried.
C21_RefreshFailurePropagates ==
    RoleRefreshFailed =>
        /\ ~probe.out.ok
        /\ probe.out.kind = "CollaboratorError"
        /\ probe.out.kind # "NotFound"
        /\ Refreshes(probe.calls) = 1

-----------------------------------------------------------------------------
(* Claims about findMember, checked under SpecMember *)

\* a findMember call whose guild was resolved
MemberProbe == probe.fn = "findMember" /\ probe.guild.ok

\* an ID, bare or in mention syntax
MentionForms(id) ==
    {id, <<"<", "@">> \o id \o <<">">>, <<"<", "@", "!">> \o id \o <<">">>}

AddressedById(m) == probe.ident \in MentionForms(m.id)

AddressedByTagOrName(m) ==
    \/ SameIgnoringCase(m.tag, probe.ident)
    \/ m.nickname # Null /\ SameIgnoringCase(m.nickname, probe.ident)
    \/ SameIgnoringCase(m.username, probe.ident)

\* the members of the resolved guild, among ms, that the identifier addresses
MembersAddressed(ms) ==
    {m \in ms : /\ m.guild = ResolvedGuild.id
                /\ (AddressedById(m) \/ AddressedByTagOrName(m))}

\* the fetch-by-ID, the tag match and the nickname-or-username match all miss
MemberFirstLookupsMiss ==
    /\ MembersAddressed(Range(probe.before)) = {}
    /\ ~(probe.net.member /\ \E m \in MembersAddressed(remoteMembers) : AddressedById(m))

\* C10: when the fetch-by-ID, the tag match and the nickname-or-username match
\* all miss, findMember refreshes the members once; if the refresh succeeds
\* and the platform has a member of the resolved server with that ID, tag,
\* nickname or username, such a member is returned, and NotFound is the
\* outcome only if the refreshed cache has none.
C10_MemberFoundAfterRefresh ==
    (MemberProbe /\ MemberFirstLookupsMiss) =>
        /\ Refreshes(probe.calls) = 1
        /\ (probe.net.members /\ MembersAddressed(remoteMembers) # {}) =>
              (probe.out.ok /\ probe.out.value \in MembersAddressed(remoteMembers))
        /\ (probe.net.members /\ ~probe.out.ok) =>
              /\ probe.out.kind = "NotFound"
              /\ MembersAddressed(Range(members)) = {}

C10_Witness ==
    /\ MemberProbe /\ MemberFirstLookupsMiss
    /\ probe.ident = <<"n">>
    /\ probe.out.ok
    /\ probe.out.value.nickname = <<"N">>
    /\ probe.out.value \notin Range(probe.before)

-----------------------------------------------------------------------------
(* Claims about the server of a tool call, checked under SpecTwoServers *)

\* the joined servers that the request's server argument names, by ID or name
ServersNamed(r) ==
    {g \in Range(guilds) : \/ g.id = Field(r.parsed, "server")
                           \/ SameIgnoringCase(g.name, Field(r.parsed, "server"))}

\* the collaborator calls that look up, read or change an entity of a server
EntityCalls ==
    {"channels.fetch", "roles.fetch", "members.fetch(id)", "members.fetch",
     "messages.fetch"} \cup Mutations

\* whether the call a tool call awaits addresses the resolved server only
PendingInServer(r) ==
    LET p == r.pending
    IN  /\ "guild" \in DOMAIN p => p.guild = r.guild.id
        /\ "channel" \in DOMAIN p =>
              \E c \in remoteChannels : c.id = p.channel /\ c.guild = r.guild.id
        /\ "role" \in DOMAIN p =>
              \E x \in remoteRoles : x.id = p.role /\ x.guild = r.guild.id
        /\ "member" \in DOMAIN p =>
              \E m \in remoteMembers : m.id = p.member /\ m.guild = r.guild.id

\* C22: a tool call looks up no channel, role or member unless its server is
\* resolved; the channel, the role, the member and the target channels it
\* resolves, and whatever the call it awaits reads or changes, belong to the
\* resolved server; in assign-role and remove-role the member and the role
\* belong to the same server.
C22_EntitiesOfResolvedServer ==
    \A d \in Started :
        LET r == disp[d]
        IN  /\ ServersNamed(r) = {} =>
                  /\ \A i \in DOMAIN r.calls : r.calls[i] \notin EntityCalls
                  /\ r.guild = NoEntity
            /\ r.guild = NoEntity =>
                  /\ r.channel = NoEntity /\ r.role = NoEntity /\ r.member = NoEntity
                  /\ r.targets = <<>>
                  /\ r.pending = NoCall
            /\ r.guild # NoEntity =>
                  /\ r.guild \in ServersNamed(r)
                  /\ r.channel # NoEntity => r.channel.guild = r.guild.id
                  /\ r.role # NoEntity => r.role.guild = r.guild.id
                  /\ r.member # NoEntity => r.member.guild = r.guild.id
                  /\ \A i \in DOMAIN r.targets : r.targets[i].guild = r.guild.id
                  /\ r.pc = "await" => PendingInServer(r)
            /\ (r.member # NoEntity /\ r.role # NoEntity) => r.member.guild = r.role.guild

\* a role of the second server was assigned to a member of the second server
C22_Witness ==
    \E d \in Finished("assign-role") :
        /\ disp[d].result.status = "success"
        /\ disp[d].guild.id = GuildId(2)
        /\ disp[d].member.guild = GuildId(2)
        /\ disp[d].role.guild = GuildId(2)

-----------------------------------------------------------------------------
(* Claims about the order of the lookups of findMember, checked under SpecPriority *)

\* the members of the resolved server among ms
InServer(ms) == {m \in ms : m.guild = ResolvedGuild.id}

\* whether the identifier is the member's tag in any letter case
AddressedByTag(m) == SameIgnoringCase(m.tag, probe.ident)

\* whether the fetch by ID has found a member: in the cache, or on the
\* platform when the request got through
FetchedById ==
    \/ \E m \in InServer(Range(probe.before)) : AddressedById(m)
    \/ probe.net.member /\ \E m \in InServer(remoteMembers) : AddressedById(m)

\* whether a lookup before the refresh has found a member
FoundBeforeRefresh ==
    \/ FetchedById
    \/ \E m \in InServer(Range(probe.before)) : AddressedByTagOrName(m)

\* C25: findMember looks up in a fixed order, before the refresh and after
\* it: a member found by the ID without the mention characters is returned
\* rather than any member found by tag, and a member found by its tag in any
\* letter case rather than any member found only by nickname or username.
C25_LookupPriority ==
    MemberProbe =>
        /\ FetchedById => (probe.out.ok /\ AddressedById(probe.out.value))
        /\ (~FetchedById /\ \E m \in InServer(Range(probe.before)) : AddressedByTag(m))
              => (probe.out.ok /\ AddressedByTag(probe.out.value))
        /\ (~FoundBeforeRefresh /\ probe.net.members) =>
              /\ (\E m \in InServer(remoteMembers) : AddressedById(m))
                    => (probe.out.ok /\ AddressedById(probe.out.value))
              /\ (/\ \A m \in InServer(remoteMembers) : ~AddressedById(m)
                  /\ \E m \in InServer(remoteMembers) : AddressedByTag(m))
                    => (probe.out.ok /\ AddressedByTag(probe.out.value))

\* the member with the tag was returned though the cache has, before it, a
\* member with that nickname
C25_Witness ==
    /\ MemberProbe
    /\ ~FetchedById
    /\ probe.out.ok
    /\ AddressedByTag(probe.out.value)
    /\ Len(probe.before) = 2
    /\ probe.before[2] = probe.out.value
    /\ ~AddressedByTag(probe.before[1])
    /\ AddressedByTagOrName(probe.before[1])

-----------------------------------------------------------------------------
(* Claims about entities that share a name, checked under SpecDuplicates *)

\* where a cache has a role of the resolved server with the identifier as ID
RoleIdHits(cache) ==
    {i \in DOMAIN cache : cache[i].guild = ResolvedGuild.id /\ cache[i].id = probe.ident}

\* where a cache has a role of the resolved server named as the identifier
RoleNameHits(cache) ==
    {i \in DOMAIN cache : /\ cache[i].guild = ResolvedGuild.id
                          /\ SameIgnoringCase(cache[i].name, probe.ident)}

\* where a cache has a member of the resolved server whose nickname or
\* username is the identifier
MemberNameHits(cache) ==
    {i \in DOMAIN cache : /\ cache[i].guild = ResolvedGuild.id
                          /\ AddressedByTagOrName(cache[i])}

\* whether the resolver has returned the first of the hits in the cache
ReturnsFirst(cache, hits) == probe.out.ok /\ probe.out.value = cache[Min(hits)]

\* no resolution of a role or a member fails with Ambiguous, and the roles or
\* members that share a name are resolved to the first of them in the order
\* of the cache that the lookup reads: the cache as it was or else, when the
\* refresh has succeeded, as it is refreshed
FirstMatchWins ==
    /\ probe.fn \in {"findRole", "findMember"} => probe.out.kind # "Ambiguous"
    /\ (RoleProbe /\ RoleIdHits(probe.before) = {}) =>
          IF RoleNameHits(probe.before) # {}
          THEN ReturnsFirst(probe.before, RoleNameHits(probe.before))
          ELSE (probe.net.roles /\ RoleIdHits(roles) = {} /\ RoleNameHits(roles) # {})
                  => ReturnsFirst(roles, RoleNameHits(roles))
    /\ MemberProbe =>
          IF MemberNameHits(probe.before) # {}
          THEN ReturnsFirst(probe.before, MemberNameHits(probe.before))
          ELSE (probe.net.members /\ MemberNameHits(members) # {})
                  => ReturnsFirst(members, MemberNameHits(members))

-----------------------------------------------------------------------------
(* Claims about the calls of findRole and findMember, checked under SpecResolvers *)

\* how many times a resolution has issued the call
Times(call) == Len(SelectSeq(probe.calls, LAMBDA c : c = call))

\* a findRole call whose identifier is the ID or, in any letter case, the
\* name of a cached role of the resolved server
RoleCacheHit == RoleProbe /\ RolesAddressed(Range(probe.before)) # {}

\* on a hit of the role cache findRole issues no call but the one that
\* resolved the server, and no resolution of a role refreshes the roles twice
RoleCallsBounded ==
    /\ RoleCacheHit =>
          /\ \A i \in DOMAIN probe.calls : probe.calls[i] = "guilds.fetch"
          /\ roles = probe.before
    /\ probe.fn = "findRole" => Times("roles.fetch") <= 1

\* C24: findRole issues no collaborator call when the identifier hits the
\* role cache by ID or by name in any letter case, and at most one fetch of
\* all the roles in a resolution; findMember issues at most one fetch of all
\* the members in a resolution.
C24_AtMostOneRefresh ==
    /\ RoleCallsBounded
    /\ probe.fn = "findMember" => Times("members.fetch") <= 1

-----------------------------------------------------------------------------
(* Claims about startup, checked under SpecStartup *)

\* whether main() has made a call
MainCalled(call) == \E i \in DOMAIN main.calls : main.calls[i] = call

\* whether the handler has taken a request
Dispatched == responses # <<>> \/ \E d \in DOMAIN disp : disp[d].pc # "idle"

\* C27: a request is handled only when the token was found, the login has
\* succeeded and the server was connected after it; without a token main()
\* ends before client.login is called; when the login fails main() ends
\* before server.connect is called.
C27_StartupOrdering ==
    /\ Dispatched =>
          /\ ~Falsy(main.token)
          /\ main.pc = "running"
          /\ main.calls = <<"login", "connect">>
    /\ Falsy(main.token) => (main.calls = <<>> /\ main.pc \in {"start", "thrown"})
    /\ MainCalled("connect") => (MainCalled("login") /\ main.pc \in {"connect", "running", "exit"})
    /\ (main.pc = "exit" /\ ~MainCalled("connect")) => disp = <<>>
    /\ main.pc # "running" => (disp = <<>> /\ script # <<>>)

\* a request was answered after the startup
C27_Witness == main.pc = "running" /\ responses # <<>> /\ main.calls = <<"login", "connect">>

-----------------------------------------------------------------------------
(* Claims about the mutations of a tool call, checked under Spec *)

\* where the calls of a tool call have a mutation
MutationsIn(calls) == {i \in DOMAIN calls : calls[i] \in Mutations}

\* the tool calls that have failed
Failed == {d \in Started : disp[d].pc = "done" /\ disp[d].result.status = "failure"}

\* the tool calls that have failed because the call they awaited was rejected
FailedInCall == {d \in Failed : disp[d].result.kind = "CollaboratorError"}

\* whether a tool call has issued the call it awaited once, as its last call
IssuedOnce(r) ==
    /\ r.calls # <<>>
    /\ r.calls[Len(r.calls)] = r.pending.call
    /\ Cardinality({i \in DOMAIN r.calls : r.calls[i] = r.pending.call}) = 1

\* whether a step leaves every ended tool call as it is until its response
EndedIsFinal ==
    \A d \in DOMAIN disp :
        disp[d].pc = "done" => (disp'[d] = disp[d] \/ disp'[d] = Idle)

-----------------------------------------------------------------------------
(* Claims about two creations in flight, checked under SpecPair *)

\* the tool calls that have issued a creation
Creating ==
    {d \in Started : \E i \in DOMAIN disp[d].calls :
                        disp[d].calls[i] \in {"channels.create", "roles.create"}}

\* whether two entities of the platform are one, or differ in server or name
Distinguished(x, y) ==
    x = y \/ x.guild # y.guild \/ ~SameIgnoringCase(x.name, y.name)

\* C29: of two create-channel calls, or two create-role calls, for the same
\* name up to case in the same server, at most one has issued the creation,
\* and the server never has two text channels or two roles of that name.
C29_OneCreationOfAName ==
    /\ \A d, e \in Creating :
          (/\ disp[d].name = disp[e].name
           /\ disp[d].guild = disp[e].guild
           /\ SameIgnoringCase(disp[d].pending.name, disp[e].pending.name))
             => d = e
    /\ \A x, y \in remoteRoles : Distinguished(x, y)
    /\ \A x, y \in {c \in remoteChannels : c.type = "text"} : Distinguished(x, y)

-----------------------------------------------------------------------------
(* Claims about the fields of a role edit, checked under Spec *)

\* the key of the edit that an argument of update-role sets
EditKey(argument) ==
    CASE argument = "newName" -> "name"
      [] argument = "newColor" -> "color"
      [] argument = "newPermissions" -> "permissions"
      [] argument = "newMentionable" -> "mentionable"

EditArguments == {"newName", "newColor", "newPermissions", "newMentionable"}

\* the arguments of a request that set a key of the edit
Supplied(args) == DOMAIN args \cap EditArguments

\* the calls of update-role that have resolved the role
RoleToUpdate == {d \in Started : disp[d].name = "update-role" /\ disp[d].role # NoEntity}

\* whether a tool call has issued the edit of a role
Edits(r) == \E i \in DOMAIN r.calls : r.calls[i] = "role.edit"

\* whether the edit a tool call has issued has the keys of the supplied
\* arguments, each with the value supplied, and no other key
CarriesSupplied(r) ==
    /\ r.pending.call = "role.edit"
    /\ r.pending.role = r.role.id
    /\ DOMAIN r.pending.updates = {EditKey(a) : a \in Supplied(r.args)}
    /\ \A a \in Supplied(r.args) : r.pending.updates[EditKey(a)] = r.args[a].v

\* C30: update-role that has resolved the role and was given none of newName,
\* newColor, newPermissions and newMentionable has failed and has issued no
\* edit; given some of them, the edit it has issued carries the supplied
\* fields with their values and no other, and it has issued the edit unless
\* a supplied permission is no permission name.
C30_EditCarriesSuppliedFields ==
    \A d \in RoleToUpdate :
        IF Supplied(disp[d].args) = {}
        THEN /\ disp[d].pc = "done"
             /\ disp[d].result = ExecutionFailed(Throw("NoUpdate", Empty, <<>>))
             /\ ~Edits(disp[d])
             /\ disp[d].pending = NoCall
        ELSE /\ Edits(disp[d]) => CarriesSupplied(disp[d])
             /\ ~Edits(disp[d]) =>
                   /\ disp[d].pc = "done"
                   /\ disp[d].result.status = "failure"
                   /\ disp[d].result.kind = "InvalidPermission"

\* update-role has issued an edit of some of the four fields, not of all
C30_Witness ==
    \E d \in RoleToUpdate :
        /\ Edits(disp[d])
        /\ Cardinality(Supplied(disp[d].args)) \in {1, 2, 3}
        /\ "newMentionable" \notin Supplied(disp[d].args)
        /\ disp[d].pc = "done"
        /\ disp[d].result.status = "success"

=============================================================================
